---- MODULE Spec2Model ----
(***************************************************************************)
(* Model of the vibrator service daemon (event-loop server): the FF device *)
(* adapter, the command dispatcher, the waveform worker thread, the        *)
(* interval timer and the persistent intensity key.                        *)
(*                                                                         *)
(* The event loop is one thread: a connection (accept, recv, dispatch,     *)
(* send) is one action, except where the dispatcher blocks on the          *)
(* condition variable.  A waveform worker is a separate thread that shares *)
(* ff_dev and thread_args with the event loop without holding the mutex    *)
(* while it touches ff_dev, so each driver call of the worker is a step of *)
(* its own.                                                                *)
(***************************************************************************)
EXTENDS Integers, Sequences, FiniteSets, TLC

(***************************************************************************)
(* Bounds of the model                                                     *)
(***************************************************************************)
MaxWorkers == 2
MaxEffects == 2
MaxOvershoot == 1
(* requests and restarts in one behaviour; injected failures of driver
   calls, store writes and thread creation in one behaviour *)
MaxRequests == 3
MaxFaults == 1
(* SetAmplitude requests in a behaviour that tries every amplitude *)
MaxAmpRequests == 1
(* client connections in one run *)
MaxConns == 2

(***************************************************************************)
(* Program constants                                                       *)
(***************************************************************************)
VIBRATOR_INVALID_VALUE == -1
VIBRATOR_MAX_AMPLITUDE == 255
VIBRATOR_STRONG_MAGNITUDE == 32767
VIBRATOR_MEDIUM_MAGNITUDE == 24575
VIBRATOR_LIGHT_MAGNITUDE == 16383
WAVEFORM_MAXNUM == 24
VIBRATOR_MSG_HEADER == 8
VIBRATOR_MSG_RESULT == 4

VIBRATION_WAVEFORM == 1
VIBRATION_EFFECT == 2
VIBRATION_COMPOSITION == 3
VIBRATION_START == 4
VIBRATION_STOP == 5
VIBRATION_PRIMITIVE == 6
VIBRATION_INTERVAL == 7
VIBRATION_SET_AMPLITUDE == 8
VIBRATION_GET_CAPABLITY == 9
VIBRATION_SET_INTENSITY == 10
VIBRATION_GET_INTENSITY == 11

VIBRATION_LIGHT == 0
VIBRATION_MEDIUM == 1
VIBRATION_STRONG == 2
VIBRATION_DEFAULTES == 3

VIBRATION_INTENSITY_LOW == 0
VIBRATION_INTENSITY_MEDIUM == 1
VIBRATION_INTENSITY_HIGH == 2
VIBRATION_INTENSITY_OFF == 3

CAP_PERFORM_CALLBACK == 2
CAP_AMPLITUDE_CONTROL == 4
CAP_COMPOSE_EFFECTS == 32

OK == 0
ERROR == -1
EINVAL == 22
ENODEV == 19
ENOTSUP == 138
SentinelDuration == 1000

(* sizes of the packed wire structures *)
SizeofWaveform == 1 + 1 + 2 + WAVEFORM_MAXNUM + 4 * WAVEFORM_MAXNUM
SizeofEffect == 4 + 4 + 4
SizeofIntensityEnum == 4
SizeofMsg == 4 + 1 + 1 + 1 + SizeofWaveform

(***************************************************************************)
(* Pure helpers                                                            *)
(***************************************************************************)

(* the length table the client fills the header from *)
RequestLen(type) ==
    CASE type \in {VIBRATION_WAVEFORM, VIBRATION_INTERVAL} ->
            VIBRATOR_MSG_HEADER + SizeofWaveform
      [] type = VIBRATION_EFFECT -> VIBRATOR_MSG_HEADER + SizeofEffect
      [] type = VIBRATION_START -> VIBRATOR_MSG_HEADER + 4
      [] type = VIBRATION_STOP -> VIBRATOR_MSG_HEADER
      [] type = VIBRATION_SET_AMPLITUDE -> VIBRATOR_MSG_HEADER + 1
      [] type = VIBRATION_GET_CAPABLITY -> VIBRATOR_MSG_HEADER
      [] type = VIBRATION_GET_INTENSITY -> VIBRATOR_MSG_HEADER
      [] type = VIBRATION_SET_INTENSITY ->
            SizeofIntensityEnum + VIBRATOR_MSG_HEADER
      [] OTHER -> SizeofMsg

ResponseLen(type) ==
    CASE type \in {VIBRATION_WAVEFORM, VIBRATION_INTERVAL} ->
            VIBRATOR_MSG_RESULT
      [] type = VIBRATION_EFFECT -> VIBRATOR_MSG_HEADER + SizeofEffect
      [] type = VIBRATION_START -> VIBRATOR_MSG_RESULT
      [] type = VIBRATION_STOP -> VIBRATOR_MSG_RESULT
      [] type = VIBRATION_SET_AMPLITUDE -> VIBRATOR_MSG_RESULT
      [] type = VIBRATION_GET_CAPABLITY -> VIBRATOR_MSG_HEADER + 4
      [] type = VIBRATION_GET_INTENSITY -> VIBRATOR_MSG_HEADER + 4
      [] type = VIBRATION_SET_INTENSITY -> VIBRATOR_MSG_RESULT
      [] OTHER -> SizeofMsg

(* scale(): "amplitude * 0.3" and "* 0.6" truncated to int agree with the
   integer quotients below for every amplitude in 0..255 *)
scale(amplitude, intens) ==
    CASE intens = VIBRATION_INTENSITY_LOW -> (amplitude * 3) \div 10
      [] intens = VIBRATION_INTENSITY_MEDIUM -> (amplitude * 6) \div 10
      [] intens = VIBRATION_INTENSITY_HIGH -> amplitude
      [] OTHER -> VIBRATOR_MAX_AMPLITUDE

(* a gate that lets every intensity through *)
should_vibrate_open(intens) == TRUE
should_vibrate(intens) == intens # VIBRATION_INTENSITY_OFF

(* the value an int16_t holds after an int is assigned to it, and the value
   a uint8_t parameter receives *)
Int16(x) == LET m == x % 65536 IN IF m >= 32768 THEN m - 65536 ELSE m
UInt8(x) == x % 256

(* a mapping that takes the amplitude for a percentage *)
AmplitudeToMagnitude_percent(amplitude) ==
    (amplitude * (VIBRATOR_STRONG_MAGNITUDE - VIBRATOR_LIGHT_MAGNITUDE)) \div 100
        + VIBRATOR_LIGHT_MAGNITUDE
(* magnitude computed by ff_set_amplitude() and play_primitive() *)
AmplitudeToMagnitude(amplitude) ==
    (amplitude * (VIBRATOR_STRONG_MAGNITUDE - VIBRATOR_LIGHT_MAGNITUDE)) \div 255
        + VIBRATOR_LIGHT_MAGNITUDE

(* C arrays are 0-based; sequences are 1-based: timings[i] is At(t, i) *)
At(s, i) == IF i + 1 \in DOMAIN s THEN s[i + 1] ELSE 0

(* what "timings[repeat]" reads in should_repeat(): for repeat = -1 the
   word in front of the array, which in vibrator_waveform_t is the last four
   amplitudes; before is the value of that word *)
TimingRead(timings, repeat, before) ==
    IF repeat < 0 THEN before ELSE At(timings, repeat)

(* the values the word in front of the timings may hold: zero or not *)
WordsBefore == { 0, 1 }

RECURSIVE should_repeat(_, _, _, _)
(* a test that lets every waveform repeat *)
should_repeat_always(repeat, timings, len, before) == TRUE
should_repeat(repeat, timings, len, before) ==
    IF repeat < len
    THEN IF TimingRead(timings, repeat, before) # 0
         THEN TRUE
         ELSE should_repeat(repeat + 1, timings, len, before)
    ELSE FALSE

(* the indices of timings a call of should_repeat() reads *)
RECURSIVE ShouldRepeatReads(_, _, _, _)
ShouldRepeatReads(repeat, timings, len, before) ==
    IF repeat < len
    THEN IF TimingRead(timings, repeat, before) # 0
         THEN { repeat }
         ELSE { repeat }
                \cup ShouldRepeatReads(repeat + 1, timings, len, before)
    ELSE {}

(* uint32_t addition ("timing += timings[i]"), on the int32_t reading of the
   32 bits: the sum wraps modulo 2^32 *)
U32Add(a, b) ==
    IF a >= 0 /\ b >= 0 /\ a > 2147483647 - b
    THEN (a - 2147483647 - 1) + (b - 2147483647 - 1)
    ELSE IF a < 0 /\ b < 0 /\ a < (-2147483647 - 1) - b
    THEN (a + 2147483647 + 1) + (b + 2147483647 + 1)
    ELSE a + b

(* the loop of get_total_on_duration(): i, timing and repeat_index are the
   loop variables, start the start index, reads the indices read so far.
   The result is the value returned, the uint32_t timing converted to the
   int32_t return type, and the indices the call has read. *)
RECURSIVE TotalOnLoop(_, _, _, _, _, _, _, _)
TotalOnLoop(timings, amplitudes, start, len, i, rep, timing, reads) ==
    IF At(amplitudes, i) = 0
    THEN [ret |-> timing, reads |-> reads \cup {i}]
    ELSE LET t1 == U32Add(timing, At(timings, i))
             i1 == i + 1
             rd == reads \cup {i}
         IN  IF i1 >= len
             THEN IF rep >= 0
                  THEN IF rep = start
                       THEN [ret |-> SentinelDuration, reads |-> rd]
                       ELSE TotalOnLoop(timings, amplitudes, start, len,
                                        rep, -1, t1, rd)
                  ELSE [ret |-> t1, reads |-> rd]
             ELSE IF i1 = start
                  THEN [ret |-> SentinelDuration, reads |-> rd]
                  ELSE TotalOnLoop(timings, amplitudes, start, len,
                                   i1, rep, t1, rd)

get_total_on_duration(timings, amplitudes, start_index, repeat_index, len) ==
    TotalOnLoop(timings, amplitudes, start_index, len,
                start_index, repeat_index, 0, {}).ret

(***************************************************************************)
(* The FF driver behind the device file.  dev_effects is the set of effect *)
(* ids the driver holds (uploaded and not removed).  A driver call is      *)
(* recorded as an entry [op, id, mag, len, ok, busy]; busy tells whether   *)
(* the driver held an effect when the call arrived.                        *)
(***************************************************************************)
EffectIds == 0 .. (MaxEffects - 1)

IoEntry(op, id, mag, len, ok, eff) ==
    [op |-> op, id |-> id, mag |-> mag, len |-> len, ok |-> ok,
     busy |-> (eff # {})]

(* what write() returns for one struct ff_event_s *)
SizeofFfEvent == 8
(* the timeout play_effect() and play_primitive() pass: the bits of
   VIBRATOR_INVALID_VALUE as a uint32_t, which ff_play() only tests for
   being non-zero *)
TimeoutInvalid == VIBRATOR_INVALID_VALUE

SmallestFree(eff) == CHOOSE i \in EffectIds \ eff :
                        \A j \in EffectIds \ eff : i <= j

(* Each stage of ff_play() maps the pair (curr_app_id, dev_effects) to a
   record [app, eff, ret, err, io]: err means the stage took "goto errout". *)

(* timeout_ms != 0: "if curr_app_id is valid, then remove the effect" *)
FFRemoveFirst(app, eff, fail) ==
    IF app = VIBRATOR_INVALID_VALUE
    THEN [app |-> app, eff |-> eff, ret |-> 0, err |-> FALSE, io |-> << >>]
    ELSE IF fail \/ app \notin eff
         THEN [app |-> VIBRATOR_INVALID_VALUE, eff |-> eff, ret |-> ERROR,
               err |-> TRUE,
               io |-> << IoEntry("EVIOCRMFF", app, 0, 0, FALSE, eff) >>]
         ELSE [app |-> VIBRATOR_INVALID_VALUE, eff |-> eff \ {app},
               ret |-> 0, err |-> FALSE,
               io |-> << IoEntry("EVIOCRMFF", app, 0, 0, TRUE, eff) >>]

(* the EVIOCSFF upload: effect.id = curr_app_id; the driver allocates an id
   when effect.id is -1, updates in place the effect it holds under
   effect.id, and rejects any other id *)
FFUpload(app, eff, mag, effect_id, timeout_ms, fail) ==
    LET accepted == /\ ~fail
                    /\ IF app = VIBRATOR_INVALID_VALUE
                       THEN EffectIds \ eff # {}
                       ELSE app \in eff
        newid == IF app = VIBRATOR_INVALID_VALUE THEN SmallestFree(eff)
                 ELSE app
        op == IF effect_id # VIBRATOR_INVALID_VALUE
              THEN "EVIOCSFF periodic" ELSE "EVIOCSFF constant"
        len == IF effect_id # VIBRATOR_INVALID_VALUE THEN 0 ELSE timeout_ms
    IN  IF accepted
        THEN [app |-> newid, eff |-> eff \cup {newid}, ret |-> 0,
              err |-> FALSE,
              io |-> << IoEntry(op, newid, mag, len, TRUE, eff) >>]
        ELSE [app |-> VIBRATOR_INVALID_VALUE, eff |-> eff, ret |-> ERROR,
              err |-> TRUE,
              io |-> << IoEntry(op, app, mag, len, FALSE, eff) >>]

(* the play event; on a failed write the effect is removed and ret becomes
   the result of that EVIOCRMFF *)
FFPlayEvent(app, eff, fail, failrm) ==
    IF ~fail
    THEN [app |-> app, eff |-> eff, ret |-> 0, err |-> FALSE,
          io |-> << IoEntry("play", app, 0, 0, TRUE, eff) >>]
    ELSE LET rmok == ~failrm /\ app \in eff
         IN [app |-> VIBRATOR_INVALID_VALUE,
             eff |-> IF rmok THEN eff \ {app} ELSE eff,
             ret |-> IF rmok THEN 0 ELSE ERROR,
             err |-> TRUE,
             io |-> << IoEntry("play", app, 0, 0, FALSE, eff),
                       IoEntry("EVIOCRMFF", app, 0, 0, rmok, eff) >>]

(* timeout_ms == 0: "stop vibration if ... curr_app_id is valid" *)
(* a stop path that removes without looking whether a slot is held *)
FFStop_blind(app, eff, fail) ==
    [app |-> VIBRATOR_INVALID_VALUE, eff |-> eff \ {app}, ret |-> 0,
     err |-> FALSE, io |-> << IoEntry("EVIOCRMFF", app, 0, 0, TRUE, eff) >>]
FFStop(app, eff, fail) == FFRemoveFirst(app, eff, fail)

(* which driver calls fail during one ff_play() *)
NoFail == [rm |-> FALSE, up |-> FALSE, play |-> FALSE, rm2 |-> FALSE]
Fails == { NoFail,
           [NoFail EXCEPT !.rm = TRUE],
           [NoFail EXCEPT !.up = TRUE],
           [NoFail EXCEPT !.play = TRUE],
           [NoFail EXCEPT !.play = TRUE, !.rm2 = TRUE] }

(* ff_play() run without interruption, as the event loop runs it *)
ff_play(app, eff, mag, effect_id, timeout_ms, f) ==
    IF timeout_ms # 0
    THEN LET a == FFRemoveFirst(app, eff, f.rm)
         IN IF a.err THEN a
            ELSE LET b == FFUpload(a.app, a.eff, mag, effect_id,
                                        timeout_ms, f.up)
                 IN IF b.err THEN [b EXCEPT !.io = a.io \o b.io]
                    ELSE LET c == FFPlayEvent(b.app, b.eff, f.play, f.rm2)
                         IN [c EXCEPT !.io = a.io \o b.io \o c.io]
    ELSE FFStop(app, eff, f.rm)

(* ff_set_amplitude(): the FF_GAIN write; amplitude arrives as a uint8_t,
   and curr_magnitude, an int16_t, is stored only when the write succeeds *)
ff_set_amplitude(mag, amplitude, eff, fail) ==
    LET tmp == AmplitudeToMagnitude(UInt8(amplitude))
    IN [mag |-> IF fail THEN mag ELSE Int16(tmp),
        ret |-> IF fail THEN ERROR ELSE SizeofFfEvent,
        io |-> << IoEntry("FF_GAIN", 0, tmp, 0, ~fail, eff) >>]

(* a strength table whose default is silence *)
StrengthMagnitude_zero(es, mag) ==
    CASE es = VIBRATION_LIGHT -> VIBRATOR_LIGHT_MAGNITUDE
      [] es = VIBRATION_MEDIUM -> VIBRATOR_MEDIUM_MAGNITUDE
      [] es = VIBRATION_STRONG -> VIBRATOR_STRONG_MAGNITUDE
      [] OTHER -> 0
(* play_effect(): curr_magnitude chosen by the effect strength *)
StrengthMagnitude(es, mag) ==
    CASE es = VIBRATION_LIGHT -> VIBRATOR_LIGHT_MAGNITUDE
      [] es = VIBRATION_MEDIUM -> VIBRATOR_MEDIUM_MAGNITUDE
      [] es = VIBRATION_STRONG -> VIBRATOR_STRONG_MAGNITUDE
      [] OTHER -> mag


(* how many calls a failure pattern makes fail *)
Injected(f) == (IF f.rm THEN 1 ELSE 0) + (IF f.up THEN 1 ELSE 0)
               + (IF f.play THEN 1 ELSE 0) + (IF f.rm2 THEN 1 ELSE 0)
Bit(b) == IF b THEN 1 ELSE 0

(***************************************************************************)
(* The persistent store                                                    *)
(***************************************************************************)
NoKey == -1

(* a store that never finds the key *)
property_get_int32_lost(store, default) == default
property_get_int32(store, default) == IF store = NoKey THEN default ELSE store

(***************************************************************************)
(* Inputs                                                                  *)
(***************************************************************************)
NoWave == [repeat |-> -1, length |-> 0, count |-> 0,
           amplitudes |-> << >>, timings |-> << >>]
WaveOneShot == [repeat |-> -1, length |-> 1, count |-> 0,
                amplitudes |-> << 255 >>, timings |-> << 500 >>]
WaveOnOff == [repeat |-> 0, length |-> 2, count |-> 0,
              amplitudes |-> << 255, 0 >>, timings |-> << 500, 500 >>]
Waves == { WaveOneShot, WaveOnOff }

(* vibrator_play_interval() fills timings[0], timings[1] and count only *)
IntervalWave(duration, interval, count) ==
    [repeat |-> 0, length |-> 0, count |-> count,
     amplitudes |-> << >>, timings |-> << duration, interval >>]
IntervalWaves == { IntervalWave(100, 200, n) : n \in {0, 1} }

Intensities == { VIBRATION_INTENSITY_LOW, VIBRATION_INTENSITY_MEDIUM,
                 VIBRATION_INTENSITY_HIGH, VIBRATION_INTENSITY_OFF }
Strengths == { VIBRATION_LIGHT, VIBRATION_DEFAULTES }
Amplitudes == { 0 }
Timeouts == { 1000 }
Capabilities == CAP_AMPLITUDE_CONTROL + CAP_PERFORM_CALLBACK
                + CAP_COMPOSE_EFFECTS
UnknownType == VIBRATION_COMPOSITION
EffectIdInputs == { 5 }
(* the amplitude of a Primitive request, in hundredths *)
PrimitiveAmplitudes == { 100 }
(* play_primitive(): "(uint8_t)(amplitude * VIBRATOR_MAX_AMPLITUDE)" for a
   float amplitude given in hundredths.  The conversion truncates toward
   zero; when the truncated value does not fit a uint8_t the behaviour is
   undefined and builds wrap or saturate. *)
PrimitiveTmp(amplitude) ==
    LET p == amplitude * VIBRATOR_MAX_AMPLITUDE
        t == IF p >= 0 THEN p \div 100 ELSE -((-p) \div 100)
    IN IF t \in 0 .. 255
       THEN { t }
       ELSE { UInt8(t), IF t < 0 THEN 0 ELSE 255 }
(* the duration the driver reports for a predefined effect in data[1..2] *)
DriverPlayLength(effect_id) == 100 + effect_id
EAGAIN == 11

Min(a, b) == IF a < b THEN a ELSE b

Header(type, rl, rs, n) ==
    [type |-> type, request_len |-> rl, response_len |-> rs, nbytes |-> n]

(* A request as the server sees it: the header fields and the number of
   bytes recv() returned.  Every type comes with a frame that fills the
   receive buffer and names that size and the table's response_len; the
   other frames are the client's own Waveform frame, a Stop cut short by
   one byte and a request with the largest response_len. *)
Headers(type) ==
    { Header(type, Min(RequestLen(type), SizeofMsg), ResponseLen(type),
             SizeofMsg) }
    \cup (IF type = VIBRATION_WAVEFORM
          THEN { Header(type, RequestLen(type), ResponseLen(type),
                        SizeofMsg) }
          ELSE {})
    \cup (IF type = VIBRATION_STOP
          THEN { Header(type, RequestLen(type), ResponseLen(type),
                        RequestLen(type) - 1) }
          ELSE {})
    \cup (IF type = VIBRATION_GET_CAPABLITY
          THEN { Header(type, RequestLen(type), 255, RequestLen(type)) }
          ELSE {})

(***************************************************************************)
(* State                                                                   *)
(***************************************************************************)
VARIABLES
    curr_app_id,       \* ff_dev.curr_app_id
    curr_magnitude,    \* ff_dev.curr_magnitude
    curr_amplitude,    \* ff_dev.curr_amplitude
    capabilities,      \* ff_dev.capabilities
    intensity,         \* ff_dev.intensity
    forcestop,         \* thread_args.forcestop
    condition_is_met,  \* thread_args.condition_is_met
    wave,              \* thread_args.wave
    timer,             \* thread_args.timer: "stopped", "repeat" or "once"
    loop_pc,           \* event loop: "idle", or "cond_wait" inside the
                       \* Waveform case of vibrator_mode_select()
    msg,               \* the request whose dispatch is blocked in cond_wait
    workers,           \* the waveform threads
    kvdb,              \* value stored under persist.vibrator_mode
    dev_effects,       \* effects the driver holds
    last_set,          \* intensity of the last SetIntensity that succeeded
    last,              \* the last step taken and what it sent and called
    nreq,              \* requests and restarts so far
    nfault,            \* failures injected so far
    fired,             \* the count the last Interval asked for and the
                       \* uploads its timer has made since
    call,              \* the last call of the client library
    dev,               \* the FF device the daemon finds when it starts
    hist,              \* per waveform thread: the payload of the command
                       \* that spawned it, whether a device call of an
                       \* earlier step failed, whether forcestop became
                       \* true during the delay it is in, whether the
                       \* amplitude of its step was scaled at intensity Off
    calc,              \* a call of one of the static helpers on its own:
                       \* the arguments, the value returned, the indices
                       \* of the arrays it read
    socks              \* the client sockets accept() has returned: whether
                       \* the daemon polls or has closed them, whether the
                       \* client still holds its end, the commands
                       \* dispatched and the replies written on them

vars == << curr_app_id, curr_magnitude, curr_amplitude, capabilities,
           intensity, forcestop, condition_is_met, wave, timer, loop_pc,
           msg, workers, kvdb, dev_effects, last_set, last, nreq, nfault,
           fired, call, dev, hist, calc, socks >>

ff_vars == << curr_app_id, curr_magnitude, curr_amplitude, capabilities,
              intensity >>

WorkerIds == 1 .. MaxWorkers
ConnIds == 1 .. MaxConns

NoWorker == [pc |-> "none", wave |-> NoWave, index |-> 0, on_duration |-> 0,
             amplitude |-> 0, duration |-> 0, forcestop |-> FALSE,
             cancelled |-> FALSE, late |-> 0, asked |-> -1]

NoHeader == Header(0, 0, 0, 0)
(* no Interval is in progress *)
NoInterval == [asked |-> -1, duration |-> 0, replaced |-> FALSE,
               plays |-> 0, uploads |-> 0]
(* the client library has not been called *)
NoCall == [fn |-> "none", repeat |-> 0, length |-> 0, ret |-> 0,
           sent |-> FALSE, crashed |-> FALSE, frame |-> NoHeader]
(* a thread nothing is remembered of *)
NoHist == [err |-> "ok", given |-> NoWave, hit |-> FALSE, off |-> FALSE]
NoMsg == [hdr |-> NoHeader, wave |-> NoWave]
(* a socket accept() has not returned yet *)
NoSock == [state |-> "free", peer |-> FALSE, dispatched |-> 0,
           replies |-> 0]
(* no helper has been called *)
NoCalc == [fn |-> "none", wave |-> NoWave, start |-> 0, ret |-> 0,
           reads |-> {}]

Step(actor, who, io) ==
    [actor |-> actor, who |-> who, type |-> 0, short |-> FALSE,
     dispatched |-> FALSE, sent |-> FALSE, result |-> 0, len |-> 0,
     value |-> 0, arg |-> 0, io |-> io]

(* the reply written by connection_poll_cb() after vibrator_mode_select() *)
Reply(h, result, value, io) ==
    [actor |-> "conn", who |-> 0, type |-> h.type,
     short |-> (h.nbytes < RequestLen(h.type)),
     dispatched |-> TRUE, sent |-> TRUE, result |-> result,
     len |-> h.response_len, value |-> value, arg |-> 0, io |-> io]

(* the same, remembering the argument of the request: the strength of a
   PredefinedEffect, the intensity of a SetIntensity *)
ReplyArg(h, result, value, io, arg) ==
    [Reply(h, result, value, io) EXCEPT !.arg = arg]

(* failures still within MaxFaults *)
MayFail == IF nfault < MaxFaults THEN BOOLEAN ELSE { FALSE }
MayFails == { f \in Fails : nfault + Injected(f) <= MaxFaults }

(* the features EVIOCGBIT can report, and a device that has them all *)
FfFeatures == { "FF_CONSTANT", "FF_PERIODIC", "FF_CUSTOM", "FF_GAIN" }
FullDevice == [openable |-> TRUE, gbit |-> TRUE, bits |-> FfFeatures]

(* an initialisation that accepts any bitmap *)
vibrator_init_lenient(d, store) ==
    IF ~d.openable
    THEN [ret |-> -ENODEV, capabilities |-> 0,
          intensity |-> VIBRATION_INTENSITY_OFF]
    ELSE IF ~d.gbit
    THEN [ret |-> ERROR, capabilities |-> 0,
          intensity |-> VIBRATION_INTENSITY_OFF]
    ELSE [ret |-> OK,
          capabilities |->
              (IF "FF_CUSTOM" \in d.bits THEN CAP_AMPLITUDE_CONTROL ELSE 0)
              + (IF "FF_GAIN" \in d.bits
                 THEN CAP_PERFORM_CALLBACK + CAP_COMPOSE_EFFECTS ELSE 0),
          intensity |-> property_get_int32(store, VIBRATION_INTENSITY_OFF)]
(* an initialisation whose intensity defaults to Medium *)
vibrator_init_medium(d, store) ==
    IF ~d.openable
    THEN [ret |-> -ENODEV, capabilities |-> 0,
          intensity |-> VIBRATION_INTENSITY_MEDIUM]
    ELSE IF ~d.gbit
    THEN [ret |-> ERROR, capabilities |-> 0,
          intensity |-> VIBRATION_INTENSITY_MEDIUM]
    ELSE IF "FF_CONSTANT" \in d.bits \/ "FF_PERIODIC" \in d.bits
    THEN [ret |-> OK,
          capabilities |->
              (IF "FF_CUSTOM" \in d.bits THEN CAP_AMPLITUDE_CONTROL ELSE 0)
              + (IF "FF_GAIN" \in d.bits
                 THEN CAP_PERFORM_CALLBACK + CAP_COMPOSE_EFFECTS ELSE 0),
          intensity |-> property_get_int32(store, VIBRATION_INTENSITY_MEDIUM)]
    ELSE [ret |-> -ENODEV,
          capabilities |-> 0,
          intensity |-> VIBRATION_INTENSITY_MEDIUM]
(* vibrator_init(): what it returns and what it leaves in ff_dev *)
vibrator_init(d, store) ==
    IF ~d.openable
    THEN [ret |-> -ENODEV, capabilities |-> 0,
          intensity |-> VIBRATION_INTENSITY_OFF]
    ELSE IF ~d.gbit
    THEN [ret |-> ERROR, capabilities |-> 0,
          intensity |-> VIBRATION_INTENSITY_OFF]
    ELSE IF "FF_CONSTANT" \in d.bits \/ "FF_PERIODIC" \in d.bits
    THEN [ret |-> OK,
          capabilities |->
              (IF "FF_CUSTOM" \in d.bits THEN CAP_AMPLITUDE_CONTROL ELSE 0)
              + (IF "FF_GAIN" \in d.bits
                 THEN CAP_PERFORM_CALLBACK + CAP_COMPOSE_EFFECTS ELSE 0),
          intensity |-> property_get_int32(store, VIBRATION_INTENSITY_OFF)]
    ELSE [ret |-> -ENODEV,
          capabilities |-> 0,
          intensity |-> VIBRATION_INTENSITY_OFF]

(* main(): it returns the result of a failed vibrator_init() before any
   socket exists, and otherwise sets up thread_args and runs the loop *)
Boot(store) ==
    /\ curr_app_id' = VIBRATOR_INVALID_VALUE
    /\ curr_magnitude' = VIBRATOR_STRONG_MAGNITUDE
    /\ curr_amplitude' = VIBRATOR_MAX_AMPLITUDE
    /\ capabilities' = vibrator_init(dev, store).capabilities
    /\ intensity' = vibrator_init(dev, store).intensity
    /\ forcestop' = TRUE
    /\ condition_is_met' = FALSE
    /\ wave' = NoWave
    /\ timer' = "stopped"
    /\ loop_pc' = IF vibrator_init(dev, store).ret < 0
                  THEN "exited" ELSE "idle"
    /\ msg' = NoMsg
    /\ workers' = [w \in WorkerIds |-> NoWorker]
    /\ dev_effects' = {}

(* the daemon has started; the store is empty or holds what an earlier run
   wrote *)
Started(devs, stores) ==
    /\ dev \in devs
    /\ curr_app_id = VIBRATOR_INVALID_VALUE
    /\ curr_magnitude = VIBRATOR_STRONG_MAGNITUDE
    /\ curr_amplitude = VIBRATOR_MAX_AMPLITUDE
    /\ kvdb \in stores
    /\ capabilities = vibrator_init(dev, kvdb).capabilities
    /\ intensity = vibrator_init(dev, kvdb).intensity
    /\ forcestop = TRUE
    /\ condition_is_met = FALSE
    /\ wave = NoWave
    /\ timer = "stopped"
    /\ loop_pc = IF vibrator_init(dev, kvdb).ret < 0 THEN "exited" ELSE "idle"
    /\ msg = NoMsg
    /\ workers = [w \in WorkerIds |-> NoWorker]
    /\ dev_effects = {}
    /\ last_set = NoKey
    /\ last = [Step("init", 0, << >>) EXCEPT
                  !.result = vibrator_init(dev, kvdb).ret]
    /\ nreq = 0
    /\ nfault = 0
    /\ fired = NoInterval
    /\ call = NoCall
    /\ hist = [w \in WorkerIds |-> NoHist]
    /\ socks = [c \in ConnIds |-> NoSock]

DeviceInit(devs, stores) == Started(devs, stores) /\ calc = NoCalc

(* the same on a device that has every feature *)
InitWith(stores) == DeviceInit({ FullDevice }, stores)

Init == InitWith({ NoKey, VIBRATION_INTENSITY_HIGH })

(***************************************************************************)
(* Event loop: one connection                                              *)
(***************************************************************************)
Received(h, type) ==
    /\ loop_pc = "idle"
    /\ nreq < MaxRequests
    /\ nreq' = nreq + 1
    /\ h \in Headers(type)
    /\ h.nbytes >= h.request_len

(* every live worker that has not left its loop is now asked to stop *)
MarkCancelled(ws) ==
    [w \in WorkerIds |->
        IF ws[w].pc \notin {"none", "finish"}
        THEN [ws[w] EXCEPT !.cancelled = TRUE]
        ELSE ws[w]]

FreeWorkers == { w \in WorkerIds : workers[w].pc = "none" }

(* pthread_create(receive_waveform_thread) *)
Spawn(ws) ==
    LET w == CHOOSE x \in FreeWorkers : \A y \in FreeWorkers : x <= y
    IN [ws EXCEPT ![w] = [NoWorker EXCEPT !.pc = "start"]]

(* recv() returned fewer bytes than the header's request_len: nothing is
   dispatched and nothing is sent *)
RecvShort(h) ==
    /\ loop_pc = "idle"
    /\ nreq < MaxRequests
    /\ nreq' = nreq + 1
    /\ h \in Headers(h.type)
    /\ h.nbytes < h.request_len
    /\ last' = [Step("conn", 0, << >>) EXCEPT
                    !.type = h.type,
                    !.short = (h.nbytes < RequestLen(h.type))]
    /\ UNCHANGED << ff_vars, forcestop, condition_is_met, wave, timer,
                    loop_pc, msg, workers, kvdb, dev_effects, last_set,
                    nfault >>

(* case VIBRATION_WAVEFORM, up to pthread_cond_wait() *)
DoWaveform(h, wv) ==
    /\ Received(h, VIBRATION_WAVEFORM)
    /\ FreeWorkers # {}
    /\ timer' = "stopped"
    /\ IF forcestop = FALSE
       THEN /\ forcestop' = TRUE
            /\ loop_pc' = "cond_wait"
            /\ msg' = [hdr |-> h, wave |-> wv]
            /\ last' = [Step("conn", 0, << >>) EXCEPT
                            !.type = h.type, !.dispatched = TRUE,
                            !.short = (h.nbytes < RequestLen(h.type))]
            /\ UNCHANGED << wave, workers, nfault >>
       ELSE /\ forcestop' = FALSE
            /\ wave' = wv
            /\ \E nothread \in MayFail :
                  /\ workers' = IF nothread THEN workers ELSE Spawn(workers)
                  /\ nfault' = nfault + Bit(nothread)
                  /\ last' = Reply(h, IF nothread THEN EAGAIN ELSE 0, 0,
                                   << >>)
            /\ UNCHANGED << loop_pc, msg >>
    /\ UNCHANGED << ff_vars, condition_is_met, kvdb, dev_effects, last_set >>

(* the rest of case VIBRATION_WAVEFORM once condition_is_met is true *)
CondWake ==
    /\ loop_pc = "cond_wait"
    /\ condition_is_met
    /\ condition_is_met' = FALSE
    /\ forcestop' = FALSE
    /\ wave' = msg.wave
    /\ \E nothread \in MayFail :
          /\ workers' = IF nothread THEN workers ELSE Spawn(workers)
          /\ nfault' = nfault + Bit(nothread)
          /\ last' = Reply(msg.hdr, IF nothread THEN EAGAIN ELSE 0, 0, << >>)
    /\ loop_pc' = "idle"
    /\ msg' = NoMsg
    /\ UNCHANGED << ff_vars, timer, kvdb, dev_effects, last_set, nreq >>

(* case VIBRATION_INTERVAL: receive_interval() starts the timer with a first
   fire at once and the period timings[0] + timings[1] *)
DoInterval(h, wv) ==
    /\ Received(h, VIBRATION_INTERVAL)
    /\ forcestop' = TRUE
    /\ wave' = wv
    /\ timer' = IF At(wv.timings, 0) + At(wv.timings, 1) # 0
                THEN "repeat" ELSE "once"
    /\ workers' = MarkCancelled(workers)
    /\ last' = Reply(h, 0, 0, << >>)
    /\ UNCHANGED << ff_vars, condition_is_met, loop_pc, msg, kvdb,
                    dev_effects, last_set, nfault >>

(* ff_play() on the event loop under an injected failure pattern that
   changes what it does *)
LoopPlay(r, mag, effect_id, timeout_ms, f) ==
    /\ r = ff_play(curr_app_id, dev_effects, mag, effect_id, timeout_ms, f)
    /\ f = NoFail \/ r # ff_play(curr_app_id, dev_effects, mag, effect_id,
                                 timeout_ms, NoFail)

(* case VIBRATION_EFFECT: receive_predefined() and play_effect() *)
DoEffect(h, effect_id, es) ==
    /\ Received(h, VIBRATION_EFFECT)
    /\ forcestop' = TRUE
    /\ timer' = "stopped"
    /\ workers' = MarkCancelled(workers)
    /\ IF ~should_vibrate(intensity)
       THEN /\ last' = ReplyArg(h, -ENOTSUP, 0, << >>, es)
            /\ UNCHANGED << curr_app_id, curr_magnitude, dev_effects,
                            nfault >>
       ELSE \E f \in MayFails :
              LET mag == StrengthMagnitude(es, curr_magnitude)
                  r == ff_play(curr_app_id, dev_effects, mag, effect_id,
                               TimeoutInvalid, f)
              IN /\ LoopPlay(r, mag, effect_id, TimeoutInvalid, f)
                 /\ curr_magnitude' = mag
                 /\ curr_app_id' = r.app
                 /\ dev_effects' = r.eff
                 /\ nfault' = nfault + Injected(f)
                 /\ last' = ReplyArg(h, r.ret,
                                     IF r.ret >= 0
                                     THEN DriverPlayLength(effect_id) ELSE 0,
                                     r.io, es)
    /\ UNCHANGED << curr_amplitude, capabilities, intensity,
                    condition_is_met, wave, loop_pc, msg, kvdb, last_set >>

(* case VIBRATION_PRIMITIVE: receive_primitive() and play_primitive();
   amplitude is the request's float amplitude in hundredths *)
DoPrimitive(h, effect_id, amplitude) ==
    /\ Received(h, VIBRATION_PRIMITIVE)
    /\ forcestop' = TRUE
    /\ timer' = "stopped"
    /\ workers' = MarkCancelled(workers)
    /\ IF ~should_vibrate(intensity)
       THEN /\ last' = Reply(h, -ENOTSUP, 0, << >>)
            /\ UNCHANGED << curr_app_id, curr_magnitude, dev_effects,
                            nfault >>
       ELSE \E f \in MayFails, tmp \in PrimitiveTmp(amplitude) :
              LET mag == Int16(Int16(AmplitudeToMagnitude(tmp)
                                     - VIBRATOR_LIGHT_MAGNITUDE)
                               + VIBRATOR_LIGHT_MAGNITUDE)
                  r == ff_play(curr_app_id, dev_effects, mag, effect_id,
                               TimeoutInvalid, f)
              IN /\ LoopPlay(r, mag, effect_id, TimeoutInvalid, f)
                 /\ curr_magnitude' = mag
                 /\ curr_app_id' = r.app
                 /\ dev_effects' = r.eff
                 /\ nfault' = nfault + Injected(f)
                 /\ last' = Reply(h, r.ret,
                                  IF r.ret >= 0
                                  THEN DriverPlayLength(effect_id) ELSE 0,
                                  r.io)
    /\ UNCHANGED << curr_amplitude, capabilities, intensity,
                    condition_is_met, wave, loop_pc, msg, kvdb, last_set >>

(* a Stop that leaves the interval timer running *)
DoStop_keeps_timer(h) ==
    /\ Received(h, VIBRATION_STOP)
    /\ forcestop' = TRUE
    /\ timer' = timer
    /\ workers' = MarkCancelled(workers)
    /\ \E f \in MayFails :
          LET r == ff_play(curr_app_id, dev_effects, curr_magnitude,
                           VIBRATOR_INVALID_VALUE, 0, f)
          IN /\ LoopPlay(r, curr_magnitude, VIBRATOR_INVALID_VALUE, 0, f)
             /\ curr_app_id' = r.app
             /\ dev_effects' = r.eff
             /\ nfault' = nfault + Injected(f)
             /\ last' = Reply(h, r.ret, 0, r.io)
    /\ UNCHANGED << curr_magnitude, curr_amplitude, capabilities, intensity,
                    condition_is_met, wave, loop_pc, msg, kvdb, last_set >>
(* case VIBRATION_STOP: receive_stop() is off() *)
DoStop(h) ==
    /\ Received(h, VIBRATION_STOP)
    /\ forcestop' = TRUE
    /\ timer' = "stopped"
    /\ workers' = MarkCancelled(workers)
    /\ \E f \in MayFails :
          LET r == ff_play(curr_app_id, dev_effects, curr_magnitude,
                           VIBRATOR_INVALID_VALUE, 0, f)
          IN /\ LoopPlay(r, curr_magnitude, VIBRATOR_INVALID_VALUE, 0, f)
             /\ curr_app_id' = r.app
             /\ dev_effects' = r.eff
             /\ nfault' = nfault + Injected(f)
             /\ last' = Reply(h, r.ret, 0, r.io)
    /\ UNCHANGED << curr_magnitude, curr_amplitude, capabilities, intensity,
                    condition_is_met, wave, loop_pc, msg, kvdb, last_set >>

(* a receive_start() that sets the amplitude first and enables after *)
DoStart_gain_first(h, timeoutms) ==
    /\ Received(h, VIBRATION_START)
    /\ forcestop' = TRUE
    /\ timer' = "stopped"
    /\ workers' = MarkCancelled(workers)
    /\ IF ~should_vibrate(intensity)
       THEN /\ last' = Reply(h, -ENOTSUP, 0, << >>)
            /\ UNCHANGED << curr_app_id, curr_magnitude, dev_effects,
                            nfault >>
       ELSE \E f \in MayFails, gfail \in BOOLEAN :
              LET scale_amplitude == scale(curr_amplitude, intensity)
                  r == ff_play(curr_app_id, dev_effects, curr_magnitude,
                               VIBRATOR_INVALID_VALUE, timeoutms, f)
                  g == ff_set_amplitude(curr_magnitude, scale_amplitude,
                                        r.eff, gfail)
              IN /\ LoopPlay(r, curr_magnitude, VIBRATOR_INVALID_VALUE,
                             timeoutms, f)
                 /\ nfault + Injected(f) + Bit(gfail) <= MaxFaults
                 /\ curr_app_id' = r.app
                 /\ dev_effects' = r.eff
                 /\ curr_magnitude' = g.mag
                 /\ nfault' = nfault + Injected(f) + Bit(gfail)
                 /\ last' = Reply(h, g.ret, 0, g.io \o r.io)
    /\ UNCHANGED << curr_amplitude, capabilities, intensity,
                    condition_is_met, wave, loop_pc, msg, kvdb, last_set >>
(* case VIBRATION_START: receive_start() is on() then ff_set_amplitude(),
   whose result is the one returned *)
DoStart(h, timeoutms) ==
    /\ Received(h, VIBRATION_START)
    /\ forcestop' = TRUE
    /\ timer' = "stopped"
    /\ workers' = MarkCancelled(workers)
    /\ IF ~should_vibrate(intensity)
       THEN /\ last' = Reply(h, -ENOTSUP, 0, << >>)
            /\ UNCHANGED << curr_app_id, curr_magnitude, dev_effects,
                            nfault >>
       ELSE \E f \in MayFails, gfail \in BOOLEAN :
              LET scale_amplitude == scale(curr_amplitude, intensity)
                  r == ff_play(curr_app_id, dev_effects, curr_magnitude,
                               VIBRATOR_INVALID_VALUE, timeoutms, f)
                  g == ff_set_amplitude(curr_magnitude, scale_amplitude,
                                        r.eff, gfail)
              IN /\ LoopPlay(r, curr_magnitude, VIBRATOR_INVALID_VALUE,
                             timeoutms, f)
                 /\ nfault + Injected(f) + Bit(gfail) <= MaxFaults
                 /\ curr_app_id' = r.app
                 /\ dev_effects' = r.eff
                 /\ curr_magnitude' = g.mag
                 /\ nfault' = nfault + Injected(f) + Bit(gfail)
                 /\ last' = Reply(h, g.ret, 0, r.io \o g.io)
    /\ UNCHANGED << curr_amplitude, capabilities, intensity,
                    condition_is_met, wave, loop_pc, msg, kvdb, last_set >>

(* a SetIntensity that ends what is playing, as the play commands do *)
DoSetIntensity_cancels(h, x) ==
    /\ Received(h, VIBRATION_SET_INTENSITY)
    /\ intensity' = x
    /\ forcestop' = TRUE
    /\ timer' = "stopped"
    /\ workers' = MarkCancelled(workers)
    /\ \E fail \in MayFail :
          /\ kvdb' = IF fail THEN kvdb ELSE x
          /\ last_set' = IF fail THEN last_set ELSE x
          /\ nfault' = nfault + Bit(fail)
          /\ last' = ReplyArg(h, IF fail THEN ERROR ELSE OK, 0, << >>, x)
    /\ UNCHANGED << curr_app_id, curr_magnitude, curr_amplitude,
                    capabilities, condition_is_met, wave, loop_pc, msg,
                    dev_effects >>
(* case VIBRATION_SET_INTENSITY: receive_set_intensity() *)
DoSetIntensity(h, x) ==
    /\ Received(h, VIBRATION_SET_INTENSITY)
    /\ intensity' = x
    /\ \E fail \in MayFail :
          /\ kvdb' = IF fail THEN kvdb ELSE x
          /\ last_set' = IF fail THEN last_set ELSE x
          /\ nfault' = nfault + Bit(fail)
          /\ last' = ReplyArg(h, IF fail THEN ERROR ELSE OK, 0, << >>, x)
    /\ UNCHANGED << curr_app_id, curr_magnitude, curr_amplitude,
                    capabilities, forcestop, condition_is_met, wave, timer,
                    loop_pc, msg, workers, dev_effects >>

(* case VIBRATION_GET_INTENSITY: receive_get_intensity() *)
DoGetIntensity(h) ==
    /\ Received(h, VIBRATION_GET_INTENSITY)
    /\ intensity' = property_get_int32(kvdb, intensity)
    /\ last' = Reply(h, OK, intensity', << >>)
    /\ UNCHANGED << curr_app_id, curr_magnitude, curr_amplitude,
                    capabilities, forcestop, condition_is_met, wave, timer,
                    loop_pc, msg, workers, kvdb, dev_effects, last_set,
                    nfault >>

(* case VIBRATION_SET_AMPLITUDE: receive_set_amplitude() *)
DoSetAmplitude(h, amplitude) ==
    /\ Received(h, VIBRATION_SET_AMPLITUDE)
    /\ curr_amplitude' = amplitude
    /\ \E gfail \in MayFail :
          LET g == ff_set_amplitude(curr_magnitude, amplitude, dev_effects,
                                    gfail)
          IN /\ curr_magnitude' = g.mag
             /\ nfault' = nfault + Bit(gfail)
             /\ last' = Reply(h, g.ret, 0, g.io)
    /\ UNCHANGED << curr_app_id, capabilities, intensity, forcestop,
                    condition_is_met, wave, timer, loop_pc, msg, workers,
                    kvdb, dev_effects, last_set >>

(* case VIBRATION_GET_CAPABLITY: receive_get_capabilities() *)
DoGetCapabilities(h) ==
    /\ Received(h, VIBRATION_GET_CAPABLITY)
    /\ last' = Reply(h, OK, capabilities, << >>)
    /\ UNCHANGED << ff_vars, forcestop, condition_is_met, wave, timer,
                    loop_pc, msg, workers, kvdb, dev_effects, last_set,
                    nfault >>

(* default: of the switch *)
DoUnknown(h) ==
    /\ Received(h, UnknownType)
    /\ last' = Reply(h, -EINVAL, 0, << >>)
    /\ UNCHANGED << ff_vars, forcestop, condition_is_met, wave, timer,
                    loop_pc, msg, workers, kvdb, dev_effects, last_set,
                    nfault >>

(* a callback that tests the count after decrementing it *)
TimerFire_predecrement ==
    /\ loop_pc = "idle"
    /\ timer # "stopped"
    /\ wave' = [wave EXCEPT !.count = wave.count - 1]
    /\ IF wave.count - 1 = 0
       THEN /\ timer' = "stopped"
            /\ last' = Step("timer", 0, << >>)
            /\ UNCHANGED << curr_app_id, dev_effects, nfault >>
       ELSE \E f \in MayFails :
              LET r == ff_play(curr_app_id, dev_effects, curr_magnitude,
                               VIBRATOR_INVALID_VALUE, At(wave.timings, 0), f)
              IN /\ LoopPlay(r, curr_magnitude, VIBRATOR_INVALID_VALUE,
                             At(wave.timings, 0), f)
                 /\ curr_app_id' = r.app
                 /\ dev_effects' = r.eff
                 /\ nfault' = nfault + Injected(f)
                 /\ timer' = IF timer = "once" THEN "stopped" ELSE timer
                 /\ last' = Step("timer", 0, r.io)
    /\ UNCHANGED << curr_magnitude, curr_amplitude, capabilities, intensity,
                    forcestop, condition_is_met, loop_pc, msg, workers, kvdb,
                    last_set, nreq >>
(* interval_timer_cb() *)
TimerFire ==
    /\ loop_pc = "idle"
    /\ timer # "stopped"
    /\ wave' = [wave EXCEPT !.count = wave.count - 1]
    /\ IF wave.count = 0
       THEN /\ timer' = "stopped"
            /\ last' = Step("timer", 0, << >>)
            /\ UNCHANGED << curr_app_id, dev_effects, nfault >>
       ELSE \E f \in MayFails :
              LET r == ff_play(curr_app_id, dev_effects, curr_magnitude,
                               VIBRATOR_INVALID_VALUE, At(wave.timings, 0), f)
              IN /\ LoopPlay(r, curr_magnitude, VIBRATOR_INVALID_VALUE,
                             At(wave.timings, 0), f)
                 /\ curr_app_id' = r.app
                 /\ dev_effects' = r.eff
                 /\ nfault' = nfault + Injected(f)
                 /\ timer' = IF timer = "once" THEN "stopped" ELSE timer
                 /\ last' = Step("timer", 0, r.io)
    /\ UNCHANGED << curr_magnitude, curr_amplitude, capabilities, intensity,
                    forcestop, condition_is_met, loop_pc, msg, workers, kvdb,
                    last_set, nreq >>

(* the daemon is killed and started again: the driver drops the effects of
   the closed file, the persistent store keeps its value *)
Restart ==
    /\ nreq < MaxRequests
    /\ nreq' = nreq + 1
    /\ Boot(kvdb)
    /\ last' = [Step("restart", 0, << >>) EXCEPT
                   !.result = vibrator_init(dev, kvdb).ret]
    /\ UNCHANGED << kvdb, last_set, nfault >>

(***************************************************************************)
(* The waveform thread, receive_waveform_thread()                          *)
(***************************************************************************)
loop_vars == << forcestop, wave, timer, loop_pc, msg, kvdb, last_set,
                curr_amplitude, capabilities, intensity, nreq >>

(* delay_locked(forcestop, duration): forcestop is the caller's local copy;
   overshoot is how late the sleep returned *)
delay_locked(fs, duration, overshoot) ==
    IF duration > 0
    THEN IF fs THEN duration - duration ELSE duration + overshoot
    ELSE 0

(* entry: the copy of thread_args->wave, should_vibrate(), should_repeat() *)
WorkerStart(w) ==
    /\ workers[w].pc = "start"
    /\ IF ~should_vibrate(intensity)
       THEN workers' = [workers EXCEPT ![w] = NoWorker]
       ELSE \E before \in WordsBefore :
              workers' = [workers EXCEPT
                ![w].pc = "check",
                ![w].asked = wave.repeat,
                ![w].wave = IF should_repeat(wave.repeat, wave.timings,
                                             wave.length, before)
                            THEN wave
                            ELSE [wave EXCEPT !.repeat = -1]]
    /\ last' = Step("worker", w, << >>)
    /\ UNCHANGED << loop_vars, condition_is_met, curr_app_id, curr_magnitude,
                    dev_effects, nfault >>

(* a loop head that starts the motor anew at every step that vibrates *)
WorkerCheck_restart(w) ==
    LET me == workers[w]
        wv == me.wave
        amp == scale(At(wv.amplitudes, me.index), intensity) % 256
        dur == At(wv.timings, me.index)
    IN
    /\ me.pc = "check"
    /\ workers' = [workers EXCEPT ![w] =
          IF forcestop
          THEN [me EXCEPT !.forcestop = TRUE, !.pc = "finish"]
          ELSE IF me.index < wv.length
          THEN IF dur <= 0
               THEN [me EXCEPT !.forcestop = FALSE, !.amplitude = amp,
                               !.duration = dur, !.index = me.index + 1]
               ELSE [me EXCEPT
                       !.forcestop = FALSE, !.amplitude = amp,
                       !.duration = dur, !.index = me.index + 1,
                       !.on_duration =
                           IF amp # 0 /\ me.on_duration <= 0
                           THEN get_total_on_duration(wv.timings,
                                    wv.amplitudes, me.index, wv.repeat,
                                    wv.length)
                           ELSE me.on_duration,
                       !.late = IF amp # 0 /\ me.cancelled
                                THEN Min(me.late + 1, 2) ELSE me.late,
                       !.pc = IF amp = 0 THEN "delay" ELSE "on_rm"]
          ELSE IF wv.repeat < 0
          THEN [me EXCEPT !.forcestop = FALSE, !.pc = "finish"]
          ELSE [me EXCEPT !.forcestop = FALSE, !.index = wv.repeat]]
    /\ last' = Step("worker", w, << >>)
    /\ UNCHANGED << loop_vars, condition_is_met, curr_app_id, curr_magnitude,
                    dev_effects, nfault >>
(* the head of the while loop: the forcestop test under the mutex, then the
   choice of what this step does *)
WorkerCheck(w) ==
    LET me == workers[w]
        wv == me.wave
        amp == scale(At(wv.amplitudes, me.index), intensity) % 256
        dur == At(wv.timings, me.index)
    IN
    /\ me.pc = "check"
    /\ workers' = [workers EXCEPT ![w] =
          IF forcestop
          THEN [me EXCEPT !.forcestop = TRUE, !.pc = "finish"]
          ELSE IF me.index < wv.length
          THEN IF dur <= 0
               THEN [me EXCEPT !.forcestop = FALSE, !.amplitude = amp,
                               !.duration = dur, !.index = me.index + 1]
               ELSE [me EXCEPT
                       !.forcestop = FALSE, !.amplitude = amp,
                       !.duration = dur, !.index = me.index + 1,
                       !.on_duration =
                           IF amp # 0 /\ me.on_duration <= 0
                           THEN get_total_on_duration(wv.timings,
                                    wv.amplitudes, me.index, wv.repeat,
                                    wv.length)
                           ELSE me.on_duration,
                       !.late = IF amp # 0 /\ me.cancelled
                                THEN Min(me.late + 1, 2) ELSE me.late,
                       !.pc = IF amp = 0 THEN "delay"
                              ELSE IF me.on_duration <= 0 THEN "on_rm"
                              ELSE "gain"]
          ELSE IF wv.repeat < 0
          THEN [me EXCEPT !.forcestop = FALSE, !.pc = "finish"]
          ELSE [me EXCEPT !.forcestop = FALSE, !.index = wv.repeat]]
    /\ last' = Step("worker", w, << >>)
    /\ UNCHANGED << loop_vars, condition_is_met, curr_app_id, curr_magnitude,
                    dev_effects, nfault >>

(* on(ff_dev, on_duration), first driver call of ff_play(): the removal of
   the effect held, or the whole stop path when the timeout is 0 *)
WorkerOnRemove(w) ==
    /\ workers[w].pc = "on_rm"
    /\ \E fail \in MayFail :
          LET r == FFRemoveFirst(curr_app_id, dev_effects, fail)
          IN /\ fail => r # FFRemoveFirst(curr_app_id, dev_effects, FALSE)
             /\ curr_app_id' = r.app
             /\ dev_effects' = r.eff
             /\ nfault' = nfault + Bit(fail)
             /\ workers' = [workers EXCEPT ![w].pc =
                    IF r.err \/ workers[w].on_duration = 0
                    THEN "gain" ELSE "on_upload"]
             /\ last' = Step("worker", w, r.io)
    /\ UNCHANGED << loop_vars, condition_is_met, curr_magnitude >>

(* on(): the EVIOCSFF of a constant effect of length on_duration *)
WorkerOnUpload(w) ==
    /\ workers[w].pc = "on_upload"
    /\ \E fail \in MayFail :
          LET r == FFUpload(curr_app_id, dev_effects, curr_magnitude,
                            VIBRATOR_INVALID_VALUE, workers[w].on_duration,
                            fail)
          IN /\ fail => r # FFUpload(curr_app_id, dev_effects,
                                     curr_magnitude, VIBRATOR_INVALID_VALUE,
                                     workers[w].on_duration, FALSE)
             /\ curr_app_id' = r.app
             /\ dev_effects' = r.eff
             /\ nfault' = nfault + Bit(fail)
             /\ workers' = [workers EXCEPT ![w].pc =
                    IF r.err THEN "gain" ELSE "on_play"]
             /\ last' = Step("worker", w, r.io)
    /\ UNCHANGED << loop_vars, condition_is_met, curr_magnitude >>

(* on(): the play event *)
WorkerOnPlay(w) ==
    /\ workers[w].pc = "on_play"
    /\ \E f \in { g \in MayFails : ~g.rm /\ ~g.up } :
          LET r == FFPlayEvent(curr_app_id, dev_effects, f.play, f.rm2)
          IN /\ curr_app_id' = r.app
             /\ dev_effects' = r.eff
             /\ nfault' = nfault + Injected(f)
             /\ workers' = [workers EXCEPT ![w].pc = "gain"]
             /\ last' = Step("worker", w, r.io)
    /\ UNCHANGED << loop_vars, condition_is_met, curr_magnitude >>

(* ff_set_amplitude(ff_dev, amplitude) *)
WorkerGain(w) ==
    /\ workers[w].pc = "gain"
    /\ \E gfail \in MayFail :
          LET g == ff_set_amplitude(curr_magnitude, workers[w].amplitude,
                                    dev_effects, gfail)
          IN /\ curr_magnitude' = g.mag
             /\ nfault' = nfault + Bit(gfail)
             /\ last' = Step("worker", w, g.io)
    /\ workers' = [workers EXCEPT ![w].pc = "delay"]
    /\ UNCHANGED << loop_vars, condition_is_met, curr_app_id, dev_effects >>

(* delay_locked() and the on_duration bookkeeping after it *)
WorkerDelay(w) ==
    LET me == workers[w]
    IN
    /\ me.pc = "delay"
    /\ \E overshoot \in 0 .. MaxOvershoot :
          LET wait_time == delay_locked(me.forcestop, me.duration, overshoot)
          IN /\ workers' = [workers EXCEPT
                   ![w].pc = "check",
                   ![w].on_duration = IF me.amplitude # 0
                                      THEN me.on_duration - wait_time
                                      ELSE me.on_duration]
             /\ last' = [Step("worker", w, << >>) EXCEPT
                             !.value = wait_time]
    /\ UNCHANGED << loop_vars, condition_is_met, curr_app_id, curr_magnitude,
                    dev_effects, nfault >>

(* after the loop: condition_is_met = true under the mutex, the signal, and
   the thread ends *)
WorkerFinish(w) ==
    /\ workers[w].pc = "finish"
    /\ condition_is_met' = TRUE
    /\ workers' = [workers EXCEPT ![w] = NoWorker]
    /\ last' = Step("worker", w, << >>)
    /\ UNCHANGED << loop_vars, curr_app_id, curr_magnitude, dev_effects,
                    nfault >>

WorkerStep(w) ==
    \/ WorkerStart(w)
    \/ WorkerCheck(w)
    \/ WorkerOnRemove(w)
    \/ WorkerOnUpload(w)
    \/ WorkerOnPlay(w)
    \/ WorkerGain(w)
    \/ WorkerDelay(w)
    \/ WorkerFinish(w)

(***************************************************************************)
(* Specification                                                           *)
(***************************************************************************)
Connection ==
    \/ \E type \in 1 .. 11 : \E h \in Headers(type) : RecvShort(h)
    \/ \E h \in Headers(VIBRATION_WAVEFORM), wv \in Waves : DoWaveform(h, wv)
    \/ \E h \in Headers(VIBRATION_INTERVAL), wv \in IntervalWaves :
          DoInterval(h, wv)
    \/ \E h \in Headers(VIBRATION_EFFECT), e \in EffectIdInputs,
          es \in Strengths : DoEffect(h, e, es)
    \/ \E h \in Headers(VIBRATION_PRIMITIVE), e \in EffectIdInputs,
          a \in PrimitiveAmplitudes : DoPrimitive(h, e, a)
    \/ \E h \in Headers(VIBRATION_STOP) : DoStop(h)
    \/ \E h \in Headers(VIBRATION_START), t \in Timeouts : DoStart(h, t)
    \/ \E h \in Headers(VIBRATION_SET_INTENSITY), x \in Intensities :
          DoSetIntensity(h, x)
    \/ \E h \in Headers(VIBRATION_GET_INTENSITY) : DoGetIntensity(h)
    \/ \E h \in Headers(VIBRATION_SET_AMPLITUDE), a \in Amplitudes :
          DoSetAmplitude(h, a)
    \/ \E h \in Headers(VIBRATION_GET_CAPABLITY) : DoGetCapabilities(h)
    \/ \E h \in Headers(UnknownType) : DoUnknown(h)

UploadCount(io) ==
    Cardinality({ i \in DOMAIN io :
                    io[i].op \in { "EVIOCSFF periodic", "EVIOCSFF constant" } })

(* a call the driver refused *)
Failed(io) == \E i \in DOMAIN io : ~io[i].ok

(* what is remembered of thread w after the step just taken *)
TrackThread(w) ==
    LET mine == last'.actor = "worker" /\ last'.who = w
    IN  IF workers'[w].pc = "none" THEN NoHist
        ELSE IF workers[w].pc = "none"
        THEN [NoHist EXCEPT !.given = wave']
        ELSE [hist[w] EXCEPT
                !.err = IF mine /\ workers[w].pc = "check" /\ @ = "failing"
                        THEN "failed"
                        ELSE IF mine /\ Failed(last'.io) /\ @ = "ok"
                        THEN "failing"
                        ELSE @,
                !.hit = IF mine /\ workers[w].pc = "delay" THEN FALSE
                        ELSE @ \/ (/\ workers[w].pc = "delay"
                                   /\ ~forcestop
                                   /\ forcestop'),
                !.off = IF mine /\ workers[w].pc = "check"
                        THEN /\ ~should_vibrate(intensity)
                             /\ workers'[w].pc \in { "on_rm", "gain" }
                        ELSE @]

(* bookkeeping of the step just taken: fired follows the Interval in
   progress, which any other dispatched command or a restart ends; hist
   follows the threads; the daemon never touches the client's call *)
Observe ==
    /\ hist' = [w \in WorkerIds |-> TrackThread(w)]
    /\ fired' =
          CASE last'.actor = "conn" /\ last'.dispatched
                    /\ last'.type = VIBRATION_INTERVAL ->
                  [asked |-> wave'.count,
                   duration |-> At(wave'.timings, 0),
                   replaced |-> (timer # "stopped"),
                   plays |-> 0, uploads |-> 0]
            [] last'.actor = "conn" /\ last'.dispatched
                    /\ last'.type # VIBRATION_INTERVAL -> NoInterval
            [] last'.actor = "restart" -> NoInterval
            [] last'.actor = "timer" ->
                  [fired EXCEPT
                      !.plays = @ + (IF wave.count # 0 THEN 1 ELSE 0),
                      !.uploads = @ + UploadCount(last'.io)]
            [] OTHER -> fired

(* the same for a step that has nothing to do with the client library, the
   device found at start, the helpers called on their own and the sockets *)
Track == Observe /\ UNCHANGED << call, dev, calc, socks >>

Next ==
    \/ Connection /\ Track
    \/ CondWake /\ Track
    \/ TimerFire /\ Track
    \/ \E w \in WorkerIds : WorkerStep(w) /\ Track
    \/ Restart /\ Track

Spec == Init /\ [][Next]_vars

(* the threads are scheduled fairly; clients need not send anything *)
FairSpec ==
    Spec /\ \A w \in WorkerIds : WF_vars(WorkerStep(w) /\ Track)

(* the same, and the event loop leaves pthread_cond_wait() once the
   condition holds *)
LoopFairSpec == FairSpec /\ WF_vars(CondWake /\ Track)

(***************************************************************************)
(* The gain path on its own: every amplitude, every strength, primitive    *)
(* amplitudes inside and outside [0, 1], waveforms of several amplitudes,  *)
(* under every intensity the store may hold.                               *)
(***************************************************************************)
GainAmplitudes == { 0, 1, 127, 128, 255 }
GainStrengths == { VIBRATION_LIGHT, VIBRATION_MEDIUM, VIBRATION_STRONG,
                   VIBRATION_DEFAULTES }
GainPrimitiveAmplitudes == { -150, -50, 0, 37, 100, 250 }
GainWaves == { [WaveOneShot EXCEPT !.amplitudes = << a >>] : a \in {1, 128} }
Conformant(type) ==
    Header(type, Min(RequestLen(type), SizeofMsg), ResponseLen(type),
           SizeofMsg)

GainInit == InitWith({ NoKey } \cup Intensities)

GainConnection ==
    \/ \E a \in GainAmplitudes :
          DoSetAmplitude(Conformant(VIBRATION_SET_AMPLITUDE), a)
    \/ \E t \in Timeouts : DoStart(Conformant(VIBRATION_START), t)
    \/ \E e \in EffectIdInputs, a \in GainPrimitiveAmplitudes :
          DoPrimitive(Conformant(VIBRATION_PRIMITIVE), e, a)
    \/ \E e \in EffectIdInputs, es \in GainStrengths :
          DoEffect(Conformant(VIBRATION_EFFECT), e, es)
    \/ \E wv \in GainWaves :
          DoWaveform(Conformant(VIBRATION_WAVEFORM), wv)

GainNext ==
    \/ GainConnection /\ Track
    \/ CondWake /\ Track
    \/ \E w \in WorkerIds : WorkerStep(w) /\ Track

GainSpec == GainInit /\ [][GainNext]_vars

(***************************************************************************)
(* SetAmplitude alone, for every amplitude a uint8_t can carry             *)
(***************************************************************************)
AllAmplitudes == 0 .. VIBRATOR_MAX_AMPLITUDE

AmpSetAmplitude ==
    /\ nreq < MaxAmpRequests
    /\ \E a \in AllAmplitudes :
          DoSetAmplitude(Conformant(VIBRATION_SET_AMPLITUDE), a)

AmpNext == AmpSetAmplitude /\ Track

AmpSpec == Init /\ [][AmpNext]_vars

(***************************************************************************)
(* Requests the client library would have refused, sent to the daemon by a *)
(* client that does not validate.                                          *)
(***************************************************************************)
BadWaves == { [WaveOneShot EXCEPT !.length = 0, !.amplitudes = << >>,
                                  !.timings = << >>],
              [WaveOneShot EXCEPT !.repeat = 1] }
BadIntervalWaves == { IntervalWave(0, 200, 1) }
BadStrengths == { 7 }
BadIntensities == { 7 }

BadConnection ==
    \/ \E wv \in BadWaves : DoWaveform(Conformant(VIBRATION_WAVEFORM), wv)
    \/ \E wv \in BadIntervalWaves :
          DoInterval(Conformant(VIBRATION_INTERVAL), wv)
    \/ \E e \in EffectIdInputs, es \in BadStrengths :
          DoEffect(Conformant(VIBRATION_EFFECT), e, es)
    \/ \E x \in BadIntensities :
          DoSetIntensity(Conformant(VIBRATION_SET_INTENSITY), x)

BadNext ==
    \/ BadConnection /\ Track
    \/ CondWake /\ Track
    \/ TimerFire /\ Track
    \/ \E w \in WorkerIds : WorkerStep(w) /\ Track

BadInputSpec == Init /\ [][BadNext]_vars

(***************************************************************************)
(* Waveforms whose timings are all zero from the repeat index on, and no   *)
(* command but Waveform: nothing stops a thread but the thread itself or   *)
(* the next Waveform.                                                      *)
(***************************************************************************)
ZeroTailWaves ==
    { [repeat |-> 1, length |-> 2, count |-> 0,
       amplitudes |-> << 255, 0 >>, timings |-> << 500, 0 >>],
      [repeat |-> 0, length |-> 1, count |-> 0,
       amplitudes |-> << 255 >>, timings |-> << 0 >>],
      [repeat |-> 1, length |-> 3, count |-> 0,
       amplitudes |-> << 100, 0, 0 >>, timings |-> << 2000, 0, 0 >>],
      [repeat |-> 2, length |-> 3, count |-> 0,
       amplitudes |-> << 100, 0, 0 >>, timings |-> << 2000, 0, 0 >>] }

RepeatConnection ==
    \E wv \in ZeroTailWaves :
        DoWaveform(Conformant(VIBRATION_WAVEFORM), wv)

RepeatNext ==
    \/ RepeatConnection /\ Track
    \/ CondWake /\ Track
    \/ \E w \in WorkerIds : WorkerStep(w) /\ Track

RepeatSpec == Init /\ [][RepeatNext]_vars

RepeatFairSpec ==
    RepeatSpec /\ \A w \in WorkerIds : WF_vars(WorkerStep(w) /\ Track)

(***************************************************************************)
(* Waveforms with runs of several non-zero amplitudes, played at High and  *)
(* at Low: a run is started once and its later steps only set the gain.    *)
(***************************************************************************)
StepWaves ==
    { [repeat |-> -1, length |-> 2, count |-> 0,
       amplitudes |-> << 255, 128 >>, timings |-> << 500, 300 >>],
      [repeat |-> -1, length |-> 3, count |-> 0,
       amplitudes |-> << 255, 0, 128 >>, timings |-> << 500, 100, 300 >>],
      [repeat |-> 0, length |-> 2, count |-> 0,
       amplitudes |-> << 255, 100 >>, timings |-> << 500, 500 >>] }

StepInit ==
    InitWith({ VIBRATION_INTENSITY_HIGH, VIBRATION_INTENSITY_LOW })

StepConnection ==
    \/ \E wv \in StepWaves : DoWaveform(Conformant(VIBRATION_WAVEFORM), wv)
    \/ DoStop(Conformant(VIBRATION_STOP))

StepNext ==
    \/ StepConnection /\ Track
    \/ CondWake /\ Track
    \/ \E w \in WorkerIds : WorkerStep(w) /\ Track

StepSpec == StepInit /\ [][StepNext]_vars

(***************************************************************************)
(* One Interval and no command after it: commands are taken only until an  *)
(* Interval has been dispatched, so that the timer runs to its end.        *)
(***************************************************************************)
MaxCount == 3

IntervalCounts == 0 .. MaxCount

IntervalConnection ==
    /\ fired = NoInterval
    /\ \/ \E t \in Timeouts : DoStart(Conformant(VIBRATION_START), t)
       \/ DoWaveform(Conformant(VIBRATION_WAVEFORM), WaveOnOff)
       \/ \E n \in IntervalCounts :
             DoInterval(Conformant(VIBRATION_INTERVAL),
                        IntervalWave(100, 200, n))

IntervalNext ==
    \/ IntervalConnection /\ Track
    \/ TimerFire /\ Track
    \/ CondWake /\ Track
    \/ \E w \in WorkerIds : WorkerStep(w) /\ Track

IntervalSpec == Init /\ [][IntervalNext]_vars

(***************************************************************************)
(* Intervals of different durations among the commands that stop the       *)
(* timer.                                                                  *)
(***************************************************************************)
CancelIntervals == { IntervalWave(100, 200, 2), IntervalWave(50, 50, 1) }

CancelConnection ==
    \/ \E wv \in CancelIntervals :
          DoInterval(Conformant(VIBRATION_INTERVAL), wv)
    \/ DoStop(Conformant(VIBRATION_STOP))
    \/ \E t \in Timeouts : DoStart(Conformant(VIBRATION_START), t)
    \/ DoWaveform(Conformant(VIBRATION_WAVEFORM), WaveOneShot)
    \/ \E e \in EffectIdInputs, es \in Strengths :
          DoEffect(Conformant(VIBRATION_EFFECT), e, es)
    \/ \E e \in EffectIdInputs, a \in PrimitiveAmplitudes :
          DoPrimitive(Conformant(VIBRATION_PRIMITIVE), e, a)

CancelNext ==
    \/ CancelConnection /\ Track
    \/ TimerFire /\ Track
    \/ CondWake /\ Track
    \/ \E w \in WorkerIds : WorkerStep(w) /\ Track

CancelSpec == Init /\ [][CancelNext]_vars

(***************************************************************************)
(* The daemon started on any device: one that cannot be opened, one whose  *)
(* EVIOCGBIT fails, one with any set of features.                          *)
(***************************************************************************)
Devices == [openable : BOOLEAN, gbit : BOOLEAN, bits : SUBSET FfFeatures]

DeviceInitial == DeviceInit(Devices, { NoKey, VIBRATION_INTENSITY_HIGH })

DeviceConnection ==
    \/ DoGetCapabilities(Conformant(VIBRATION_GET_CAPABLITY))
    \/ \E e \in EffectIdInputs, es \in Strengths :
          DoEffect(Conformant(VIBRATION_EFFECT), e, es)
    \/ \E e \in EffectIdInputs, a \in PrimitiveAmplitudes :
          DoPrimitive(Conformant(VIBRATION_PRIMITIVE), e, a)
    \/ \E t \in Timeouts : DoStart(Conformant(VIBRATION_START), t)

DeviceNext ==
    \/ DeviceConnection /\ Track
    \/ Restart /\ Track

DeviceSpec == DeviceInitial /\ [][DeviceNext]_vars

(***************************************************************************)
(* The client library.  A call validates its arguments, fills the request, *)
(* and vibrator_commit() sends request_len bytes and returns the result    *)
(* field of the reply.  The daemon is left out: the result it sends back   *)
(* is any of those the Waveform case can produce.                          *)
(***************************************************************************)
server_vars == << curr_app_id, curr_magnitude, curr_amplitude, capabilities,
                  intensity, forcestop, condition_is_met, wave, timer,
                  loop_pc, msg, workers, kvdb, dev_effects, last_set, last,
                  nreq, nfault, fired, dev, hist >>

(* arguments around the limits of int8_t repeat and uint8_t length *)
ClientRepeats == -3 .. (WAVEFORM_MAXNUM + 2)
ClientLengths == 0 .. (WAVEFORM_MAXNUM + 2)
(* the results of pthread_create() *)
WaveformResults == { 0, EAGAIN }

(* vibrator_msg_packet() and the send() of vibrator_commit() *)
ClientFrame(type) ==
    Header(type, RequestLen(type), ResponseLen(type), RequestLen(type))

(* vibrator_commit(): the frame goes out and the reply's result comes back *)
vibrator_commit(type) ==
    { [ret |-> r, sent |-> TRUE, crashed |-> FALSE,
       frame |-> ClientFrame(type)] : r \in WaveformResults }

(* vibrator_play_waveform(): the only test is on repeat; the memcpy() of
   length entries into the 24-entry arrays of the local wave is undefined
   for length > 24: the call goes on with a clobbered stack or crashes *)
vibrator_play_waveform(repeat, length) ==
    IF repeat < -1 \/ repeat >= length
    THEN { [ret |-> -EINVAL, sent |-> FALSE, crashed |-> FALSE,
            frame |-> NoHeader] }
    ELSE IF length > WAVEFORM_MAXNUM
         THEN vibrator_commit(VIBRATION_WAVEFORM)
              \cup { [ret |-> 0, sent |-> FALSE, crashed |-> TRUE,
                      frame |-> NoHeader] }
         ELSE vibrator_commit(VIBRATION_WAVEFORM)

ClientPlayWaveform(repeat, length) ==
    /\ \E out \in vibrator_play_waveform(repeat, length) :
          call' = [fn |-> "vibrator_play_waveform", repeat |-> repeat,
                   length |-> length, ret |-> out.ret, sent |-> out.sent,
                   crashed |-> out.crashed, frame |-> out.frame]
    /\ UNCHANGED << server_vars, calc, socks >>

ClientNext ==
    \E repeat \in ClientRepeats, length \in ClientLengths :
        ClientPlayWaveform(repeat, length)

ClientSpec == Init /\ [][ClientNext]_vars

(***************************************************************************)
(* A fresh installation: the store holds no intensity, and no SetIntensity *)
(* with a value other than Off arrives.                                    *)
(***************************************************************************)
FreshInit == InitWith({ NoKey })

FreshConnection ==
    \/ \E t \in Timeouts : DoStart(Conformant(VIBRATION_START), t)
    \/ \E e \in EffectIdInputs, es \in Strengths :
          DoEffect(Conformant(VIBRATION_EFFECT), e, es)
    \/ \E e \in EffectIdInputs, am \in PrimitiveAmplitudes :
          DoPrimitive(Conformant(VIBRATION_PRIMITIVE), e, am)
    \/ DoGetIntensity(Conformant(VIBRATION_GET_INTENSITY))
    \/ DoGetCapabilities(Conformant(VIBRATION_GET_CAPABLITY))
    \/ \E am \in Amplitudes :
          DoSetAmplitude(Conformant(VIBRATION_SET_AMPLITUDE), am)
    \/ DoSetIntensity(Conformant(VIBRATION_SET_INTENSITY),
                      VIBRATION_INTENSITY_OFF)
    \/ \E wv \in IntervalWaves :
          DoInterval(Conformant(VIBRATION_INTERVAL), wv)
    \/ DoStop(Conformant(VIBRATION_STOP))

FreshNext ==
    \/ FreshConnection /\ Track
    \/ TimerFire /\ Track
    \/ Restart /\ Track

FreshSpec == FreshInit /\ [][FreshNext]_vars

(***************************************************************************)
(* The sockets of the event loop: server_poll_cb() accepts a client and    *)
(* polls its socket, connection_poll_cb() serves it.  The clients send     *)
(* requests that start no thread and no timer.                             *)
(***************************************************************************)
(* server_poll_cb(): accept(), uv_poll_init_socket() and uv_poll_start()
   for UV_READABLE | UV_DISCONNECT; when libuv refuses, the socket is closed
   at once *)
Accept(c) ==
    /\ loop_pc = "idle"
    /\ socks[c].state = "free"
    /\ \E refused \in MayFail :
          /\ socks' = [socks EXCEPT ![c] =
                 [NoSock EXCEPT !.state = IF refused THEN "closed"
                                          ELSE "polled",
                                !.peer = TRUE]]
          /\ nfault' = nfault + Bit(refused)
    /\ last' = Step("server", c, << >>)
    /\ UNCHANGED << ff_vars, forcestop, condition_is_met, wave, timer,
                    loop_pc, msg, workers, kvdb, dev_effects, last_set,
                    nreq >>

SockConnection ==
    \/ DoGetCapabilities(Conformant(VIBRATION_GET_CAPABLITY))
    \/ DoGetIntensity(Conformant(VIBRATION_GET_INTENSITY))
    \/ DoStop(Conformant(VIBRATION_STOP))
    \/ \E h \in Headers(VIBRATION_STOP) : RecvShort(h)

(* connection_poll_cb() on UV_READABLE: one recv(), and when the frame is
   long enough vibrator_mode_select() and the send() of the reply *)
ConnReadable(c) ==
    /\ socks[c].state = "polled"
    /\ socks[c].peer
    /\ SockConnection
    /\ socks' = [socks EXCEPT
                   ![c].dispatched = @ + Bit(last'.dispatched),
                   ![c].replies = @ + Bit(last'.sent)]

(* the client closes its end *)
ClientClose(c) ==
    /\ socks[c].state # "free"
    /\ socks[c].peer
    /\ socks' = [socks EXCEPT ![c].peer = FALSE]
    /\ last' = Step("client", c, << >>)
    /\ UNCHANGED << ff_vars, forcestop, condition_is_met, wave, timer,
                    loop_pc, msg, workers, kvdb, dev_effects, last_set,
                    nreq, nfault >>

(* connection_poll_cb() on UV_DISCONNECT: uv_poll_stop(), close() and
   uv_close() *)
ConnDisconnect(c) ==
    /\ loop_pc = "idle"
    /\ socks[c].state = "polled"
    /\ ~socks[c].peer
    /\ socks' = [socks EXCEPT ![c].state = "closed"]
    /\ last' = Step("server", c, << >>)
    /\ UNCHANGED << ff_vars, forcestop, condition_is_met, wave, timer,
                    loop_pc, msg, workers, kvdb, dev_effects, last_set,
                    nreq, nfault >>

SockStep(c) ==
    \/ Accept(c)
    \/ ConnReadable(c)
    \/ ClientClose(c)
    \/ ConnDisconnect(c)

SockNext ==
    \E c \in ConnIds :
        SockStep(c) /\ Observe /\ UNCHANGED << call, dev, calc >>

SockSpec == Init /\ [][SockNext]_vars

(***************************************************************************)
(* The static helpers of the waveform thread called on their own, on every *)
(* waveform of up to MaxLen steps that passes the client's test            *)
(* -1 <= repeat < length, with timings up to 2^30 ms.                      *)
(***************************************************************************)
MaxLen == 3

HelperTimings == { 0, 500, 1073741824 }
HelperAmplitudes == { 0, 255 }
HelperWaves ==
    UNION { { [repeat |-> r, length |-> l, count |-> 0,
               amplitudes |-> a, timings |-> t] :
                 r \in -1 .. (l - 1),
                 a \in [1 .. l -> HelperAmplitudes],
                 t \in [1 .. l -> HelperTimings] } : l \in 1 .. MaxLen }

HelperInit ==
    /\ Started({ FullDevice }, { VIBRATION_INTENSITY_HIGH })
    /\ calc \in UNION { { [NoCalc EXCEPT !.wave = wv, !.start = st] :
                            st \in 0 .. (wv.length - 1) } :
                        wv \in HelperWaves }

(* get_total_on_duration(wave.timings, wave.amplitudes, start, wave.repeat,
   wave.length) *)
CallTotalOnDuration ==
    /\ calc.fn = "none"
    /\ calc' = [calc EXCEPT
                  !.fn = "get_total_on_duration",
                  !.ret = get_total_on_duration(calc.wave.timings,
                              calc.wave.amplitudes, calc.start,
                              calc.wave.repeat, calc.wave.length),
                  !.reads = TotalOnLoop(calc.wave.timings,
                                calc.wave.amplitudes, calc.start,
                                calc.wave.length, calc.start,
                                calc.wave.repeat, 0, {}).reads]
    /\ UNCHANGED << server_vars, call, socks >>

(* should_repeat(wave.repeat, wave.timings, wave.length), as the thread
   calls it at its entry *)
CallShouldRepeat ==
    /\ calc.fn = "none"
    /\ \E before \in WordsBefore :
          calc' = [calc EXCEPT
                    !.fn = "should_repeat",
                    !.ret = Bit(should_repeat(calc.wave.repeat,
                                    calc.wave.timings, calc.wave.length,
                                    before)),
                    !.reads = ShouldRepeatReads(calc.wave.repeat,
                                  calc.wave.timings, calc.wave.length,
                                  before)]
    /\ UNCHANGED << server_vars, call, socks >>

HelperNext ==
    \/ CallTotalOnDuration
    \/ CallShouldRepeat

HelperSpec == HelperInit /\ [][HelperNext]_vars

(***************************************************************************)
(* Properties                                                              *)
(***************************************************************************)
Uploads == { "EVIOCSFF periodic", "EVIOCSFF constant" }
LiveWorkers == { w \in WorkerIds : workers[w].pc # "none" }
Spawned(w) == workers[w].pc = "none" /\ workers'[w].pc = "start"
GatedTypes == { VIBRATION_START, VIBRATION_EFFECT, VIBRATION_PRIMITIVE }
Replied(type) == last.actor = "conn" /\ last.sent /\ last.type = type

(* C1 Serialization: the driver never receives an EVIOCSFF while it still
   holds an effect uploaded earlier and not removed, whoever issues it (a
   command on the event loop, a step of a waveform thread, a callback of the
   interval timer). *)
C1_Serialization ==
    \A i \in DOMAIN last.io :
        last.io[i].op \in Uploads => ~last.io[i].busy

(* C2 At most one waveform worker: whenever the dispatcher creates a
   waveform thread, every thread created before has left its step loop and
   set condition_is_met, that is, no earlier thread is alive. *)
C2_SpawnAfterExit ==
    [][ (\E w \in WorkerIds : Spawned(w)) => LiveWorkers = {} ]_vars

(* C3 Preemption bound: after the reply to a command that arrived while a
   waveform thread was playing, that thread starts at most one more step
   that calls the driver. *)
C3_PreemptionBound ==
    \A w \in WorkerIds : workers[w].late <= 1

(* C4 Eventual cancellation: a waveform thread that was alive when an
   Interval, PredefinedEffect, Primitive, Start or Stop command was
   dispatched eventually exits, whatever arrives afterwards. *)
C4_EventualCancellation ==
    \A w \in WorkerIds :
        workers[w].cancelled ~> (workers[w].pc = "none")

(* C5 Intensity gate (Start, PredefinedEffect, Primitive): while the
   intensity held by the FF device is Off, the reply to a Start,
   PredefinedEffect or Primitive command carries -ENOTSUP and the command
   made no driver call. *)
C5_IntensityGate ==
    (/\ last.actor = "conn"
     /\ last.sent
     /\ last.type \in GatedTypes
     /\ intensity = VIBRATION_INTENSITY_OFF)
    => (last.result = -ENOTSUP /\ last.io = << >>)

(* a Start, PredefinedEffect or Primitive command was answered while the
   intensity is Off *)
C5_Witness ==
    /\ last.actor = "conn"
    /\ last.sent
    /\ last.type \in GatedTypes
    /\ intensity = VIBRATION_INTENSITY_OFF
    /\ last.result = -ENOTSUP

(* C6 Intensity gate (Waveform): while the intensity held by the FF device
   is Off, the reply to a Waveform command carries -ENOTSUP. *)
C6_WaveformGate ==
    (Replied(VIBRATION_WAVEFORM) /\ intensity = VIBRATION_INTENSITY_OFF)
    => last.result = -ENOTSUP

(* C7 Intensity gate (Interval): while the intensity held by the FF device
   is Off, no callback of the interval timer calls the driver. *)
C7_IntervalGate ==
    (last.actor = "timer" /\ intensity = VIBRATION_INTENSITY_OFF)
    => last.io = << >>

(* C8 Undersized request: when fewer bytes arrive than the length table
   gives for the declared type, the command is not dispatched and the client
   is sent a reply whose result is -EINVAL. *)
C8_UndersizedRequest ==
    (last.actor = "conn" /\ last.short)
    => (~last.dispatched /\ last.sent /\ last.result = -EINVAL)

(* C9 Response length: the reply to a dispatched request has the size the
   length table gives for the request's type, whatever the response_len
   field of the request carries. *)
C9_ResponseLength ==
    (last.actor = "conn" /\ last.sent)
    => last.len = ResponseLen(last.type)

(* C10 Intensity persistence: once a SetIntensity(x) has succeeded, every
   GetIntensity returns the x of the last SetIntensity that succeeded, in
   the same run and after a restart of the daemon. *)
C10_IntensityPersistence ==
    (Replied(VIBRATION_GET_INTENSITY) /\ last_set # NoKey)
    => last.value = last_set

(* a GetIntensity answered after a SetIntensity(Low) succeeded; Low is
   neither the default of vibrator_init() nor a value the store held at the
   first start *)
C10_Witness ==
    /\ Replied(VIBRATION_GET_INTENSITY)
    /\ last_set = VIBRATION_INTENSITY_LOW
    /\ last.value = VIBRATION_INTENSITY_LOW

(* C11 Amplitude scaling: for every amplitude a in 0..255 a SetAmplitude(a)
   makes ff_set_amplitude() write exactly one FF_GAIN event, whose value is
   0x3FFF + a * (0x7FFF - 0x3FFF) / 255 in integer division, and when the
   write succeeds curr_magnitude holds that value. *)
C11_AmplitudeScaling ==
    Replied(VIBRATION_SET_AMPLITUDE) =>
        LET v == 16383 + (curr_amplitude * (32767 - 16383)) \div 255
        IN /\ Len(last.io) = 1
           /\ last.io[1].op = "FF_GAIN"
           /\ last.io[1].mag = v
           /\ (last.io[1].ok => curr_magnitude = v)

(* SetAmplitude(128) answered after a successful write of 0x3FFF + 8224 *)
C11_Witness ==
    /\ Replied(VIBRATION_SET_AMPLITUDE)
    /\ curr_amplitude = 128
    /\ last.io[1].ok
    /\ last.io[1].mag = 24607
    /\ curr_magnitude = 24607

InBand(m) == m \in 16383 .. 32767

(* C12 Magnitude band: in every reachable state curr_magnitude lies in
   [0x3FFF, 0x7FFF], and so does every magnitude the last step handed to
   the driver as an FF_GAIN value, a constant level or a periodic
   magnitude, whether the event loop or a waveform thread took the step. *)
C12_MagnitudeBand ==
    /\ InBand(curr_magnitude)
    /\ \A i \in DOMAIN last.io :
          last.io[i].op \in Uploads \cup { "FF_GAIN" }
              => InBand(last.io[i].mag)

(* a Primitive of amplitude 0.37 uploaded a periodic effect whose magnitude
   0x3FFF + 94 * 0x4000 / 255 is none of the three named levels *)
C12_Witness ==
    /\ Replied(VIBRATION_PRIMITIVE)
    /\ curr_magnitude = 22422
    /\ \E i \in DOMAIN last.io :
          last.io[i].op = "EVIOCSFF periodic" /\ last.io[i].mag = 22422

(* C13 Client waveform validation: vibrator_play_waveform() returns -EINVAL
   and sends nothing to the daemon whenever repeat < -1, repeat >= length,
   length = 0 or length > 24. *)
C13_ClientWaveformValidation ==
    (/\ call.fn = "vibrator_play_waveform"
     /\ \/ call.repeat < -1
        \/ call.repeat >= call.length
        \/ call.length = 0
        \/ call.length > 24)
    => (call.ret = -EINVAL /\ ~call.sent /\ ~call.crashed)

(* what the validation rules call out of range *)
OutOfRange(l, wv) ==
    \/ /\ l.type = VIBRATION_WAVEFORM
       /\ \/ wv.repeat < -1
          \/ wv.repeat >= wv.length
          \/ wv.length = 0
          \/ wv.length > WAVEFORM_MAXNUM
    \/ /\ l.type = VIBRATION_INTERVAL
       /\ \/ At(wv.timings, 0) <= 0
          \/ At(wv.timings, 1) < 0
          \/ wv.count < 0
    \/ /\ l.type = VIBRATION_EFFECT
       /\ l.arg \notin VIBRATION_LIGHT .. VIBRATION_DEFAULTES
    \/ /\ l.type = VIBRATION_SET_INTENSITY
       /\ l.arg \notin VIBRATION_INTENSITY_LOW .. VIBRATION_INTENSITY_OFF

(* C14 Dispatcher validation is total: a step of the event loop that
   answers an out-of-range Waveform, Interval, PredefinedEffect or
   SetIntensity answers -EINVAL, calls the driver not at all, creates no
   waveform thread and starts no timer. *)
C14_DispatcherValidation ==
    [][ (last'.actor = "conn" /\ last'.sent /\ OutOfRange(last', wave'))
        => /\ last'.result = -EINVAL
           /\ last'.io = << >>
           /\ \A w \in WorkerIds : ~Spawned(w)
           /\ (timer' = "stopped" \/ timer' = timer) ]_vars

(* the timings from the repeat index on are all zero *)
ZeroTail(repeat, timings, len) ==
    /\ repeat >= 0
    /\ \A i \in repeat .. (len - 1) : At(timings, i) = 0

(* thread w is in its loop and plays a waveform that asked for such a
   repeat index *)
PlaysZeroTail(w) ==
    /\ workers[w].pc \notin { "none", "start" }
    /\ ZeroTail(workers[w].asked, workers[w].wave.timings,
                workers[w].wave.length)

(* C15 should_repeat: the thread of a Waveform whose timings are all zero
   from its repeat index r >= 0 on plays it as if repeat were -1: it never
   goes back to an earlier index, and it exits without any stop command. *)
C15_ZeroTailPlaysOnce ==
    /\ [][ \A w \in WorkerIds :
              (PlaysZeroTail(w) /\ workers'[w].pc \notin { "none", "start" })
                  => /\ workers'[w].index >= workers[w].index
                     /\ workers'[w].wave.repeat = -1 ]_vars
    /\ \A w \in WorkerIds : PlaysZeroTail(w) ~> (workers[w].pc = "none")

(* a thread that was asked to repeat from index 1 of << 2000, 0, 0 >> has
   walked past the last entry and leaves its loop without having seen
   forcestop *)
C15_Witness ==
    \E w \in WorkerIds :
        /\ workers[w].pc = "finish"
        /\ workers[w].asked = 1
        /\ workers[w].wave.length = 3
        /\ workers[w].index = 3
        /\ ~workers[w].forcestop

(* the callback has just found the count used up and stopped the timer *)
IntervalDone ==
    /\ last.actor = "timer"
    /\ timer = "stopped"
    /\ wave.count < 0
    /\ fired.asked >= 0

(* C16 Interval count, as stated: when the timer of Interval(duration,
   interval, n) has stopped, exactly n constant-effect uploads were made. *)
C16_IntervalCount_Original ==
    IntervalDone => fired.uploads = fired.asked

(* C16 Interval count, amended: an Interval(duration, interval, n) followed
   by no other command calls on(duration) exactly n times, one per timer
   fire, then the timer is stopped and the callback never runs again; each
   call uploads at most one effect, a constant effect of length duration,
   and the uploads are exactly n when no device call has failed. *)
C16_IntervalCount ==
    /\ [](fired.asked >= 0 =>
            /\ fired.uploads <= fired.plays
            /\ fired.plays <= fired.asked)
    /\ [](IntervalDone =>
            /\ fired.plays = fired.asked
            /\ (nfault = 0 => fired.uploads = fired.asked))
    /\ [](last.actor = "timer" =>
            \A i \in DOMAIN last.io :
                last.io[i].op \in Uploads =>
                    /\ last.io[i].op = "EVIOCSFF constant"
                    /\ last.io[i].len = At(wave.timings, 0))
    /\ [][IntervalDone => last'.actor # "timer"]_vars

(* the timer of an Interval with count 3 has stopped after three uploads *)
C16_Witness ==
    /\ IntervalDone
    /\ fired.asked = MaxCount
    /\ fired.uploads = MaxCount

(* the amplitude receive_start() hands to ff_set_amplitude(), written out
   per intensity *)
StartAmplitude ==
    CASE intensity = VIBRATION_INTENSITY_LOW -> (curr_amplitude * 3) \div 10
      [] intensity = VIBRATION_INTENSITY_MEDIUM -> (curr_amplitude * 6) \div 10
      [] intensity = VIBRATION_INTENSITY_HIGH -> curr_amplitude
      [] OTHER -> 255

(* C17 Start ordering: a Start dispatched with intensity not Off ends with
   its only FF_GAIN write, so that every upload and play event of the
   command comes before it; when nothing before the gain failed, the
   constant-effect upload and then the play event are there; the gain
   written is 0x3FFF + scale(curr_amplitude, intensity) * 0x4000 / 255. *)
C17_StartOrdering ==
    (Replied(VIBRATION_START) /\ last.dispatched
        /\ intensity # VIBRATION_INTENSITY_OFF) =>
        LET n == Len(last.io)
        IN /\ n >= 1
           /\ last.io[n].op = "FF_GAIN"
           /\ last.io[n].mag = 16383 + (StartAmplitude * 16384) \div 255
           /\ \A i \in 1 .. (n - 1) : last.io[i].op # "FF_GAIN"
           /\ (\A i \in 1 .. (n - 1) : last.io[i].ok) =>
                 \E i, j \in 1 .. (n - 1) :
                    /\ i < j
                    /\ last.io[i].op = "EVIOCSFF constant"
                    /\ last.io[j].op = "play"

(* a Start at intensity Low with amplitude 127: upload, play, then the gain
   of amplitude 38 *)
C17_Witness ==
    /\ Replied(VIBRATION_START)
    /\ intensity = VIBRATION_INTENSITY_LOW
    /\ curr_amplitude = 127
    /\ Len(last.io) >= 3
    /\ \A i \in DOMAIN last.io : last.io[i].ok
    /\ last.io[Len(last.io)].mag = 18824

(* the commands whose reply is the result of ff_play() *)
PlayTypes == { VIBRATION_STOP, VIBRATION_EFFECT, VIBRATION_PRIMITIVE }

(* C18 ff_play surfaces device errors: when a remove ioctl, an upload ioctl
   or the play-event write of the ff_play() behind a Stop, PredefinedEffect
   or Primitive fails, the result in the reply to that command is negative. *)
C18_PlaySurfacesErrors ==
    (\E t \in PlayTypes : Replied(t) /\ last.dispatched /\ Failed(last.io))
        => last.result < 0

(* C19 Start surfaces device errors: when the constant-effect upload or the
   play event of a Start fails, the result in the reply to Start is
   negative. *)
C19_StartSurfacesErrors ==
    (/\ Replied(VIBRATION_START)
     /\ last.dispatched
     /\ \E i \in DOMAIN last.io :
           /\ last.io[i].op \in { "EVIOCSFF constant", "play" }
           /\ ~last.io[i].ok)
        => last.result < 0

(* the steps that run ff_play() to its end in one go: a command on the
   event loop or a callback of the interval timer *)
PlayedWhole ==
    /\ last.actor \in { "conn", "timer" }
    /\ \E i \in DOMAIN last.io : last.io[i].op # "FF_GAIN" /\ ~last.io[i].ok

(* C20 Slot invalidated on failure: after a failing remove, upload or play
   step in ff_play(), curr_app_id is VIBRATOR_INVALID_VALUE and the driver
   holds no uploaded effect. *)
C20_SlotInvalidated ==
    PlayedWhole =>
        /\ curr_app_id = VIBRATOR_INVALID_VALUE
        /\ dev_effects = {}

(* no command is executing: the event loop is idle, no waveform thread is
   alive and no interval timer is running *)
Quiescent ==
    /\ loop_pc = "idle"
    /\ LiveWorkers = {}
    /\ timer = "stopped"

(* C21 Invariant I1: whenever no command is executing, curr_app_id is
   VIBRATOR_INVALID_VALUE if and only if the driver holds no uploaded
   effect. *)
C21_SlotIffQuiescent ==
    Quiescent =>
        ((curr_app_id = VIBRATOR_INVALID_VALUE) <=> (dev_effects = {}))

(* the step just taken is the dispatch of a Stop *)
StopDispatched ==
    /\ last'.actor = "conn"
    /\ last'.dispatched
    /\ last'.type = VIBRATION_STOP

(* C22 Stop, as stated: the reply to every Stop carries result 0. *)
C22_Stop_Original ==
    Replied(VIBRATION_STOP) => last.result = 0

(* C22 Stop, amended: a Stop issues exactly one EVIOCRMFF, that of
   curr_app_id, when a slot is held and no device call when the slot is
   free; it leaves curr_app_id invalid; its result is 0 unless the
   EVIOCRMFF fails, and then it is negative and the effect stays in the
   driver; a Stop right after a Stop makes no device call and changes
   nothing of the device state. *)
C22_Stop ==
    /\ [][ StopDispatched =>
             /\ curr_app_id' = VIBRATOR_INVALID_VALUE
             /\ IF curr_app_id = VIBRATOR_INVALID_VALUE
                THEN /\ last'.io = << >>
                     /\ last'.result = 0
                     /\ dev_effects' = dev_effects
                ELSE /\ Len(last'.io) = 1
                     /\ last'.io[1].op = "EVIOCRMFF"
                     /\ last'.io[1].id = curr_app_id
                     /\ IF last'.io[1].ok
                        THEN /\ last'.result = 0
                             /\ dev_effects' = dev_effects \ { curr_app_id }
                        ELSE /\ last'.result < 0
                             /\ dev_effects' = dev_effects ]_vars
    /\ [][ (Replied(VIBRATION_STOP) /\ last.dispatched /\ StopDispatched) =>
             /\ last'.io = << >>
             /\ last'.result = 0
             /\ UNCHANGED << ff_vars, dev_effects, timer >> ]_vars

(* a Stop has removed the one effect held and replied 0 *)
C22_Witness ==
    /\ Replied(VIBRATION_STOP)
    /\ Len(last.io) = 1
    /\ last.io[1].op = "EVIOCRMFF"
    /\ last.io[1].ok
    /\ last.result = 0
    /\ curr_app_id = VIBRATOR_INVALID_VALUE
    /\ dev_effects = {}

(* the commands whose case in vibrator_mode_select() stops the timer and
   does not start it again *)
TimerStoppers == { VIBRATION_WAVEFORM, VIBRATION_STOP, VIBRATION_START,
                   VIBRATION_EFFECT, VIBRATION_PRIMITIVE }

(* C23 Interval timer cancellation: the dispatch of a Waveform, Stop, Start,
   PredefinedEffect or Primitive leaves the timer stopped; a callback that
   issues a device call runs only for the Interval dispatched last, with no
   such command after it: it uploads that Interval's duration and never
   plays more often than that Interval's count, also when that Interval
   replaced a timer still running. *)
C23_TimerCancellation ==
    /\ [][ (last'.actor = "conn" /\ last'.dispatched
               /\ last'.type \in TimerStoppers) => timer' = "stopped" ]_vars
    /\ [][ (last'.actor = "timer" /\ last'.io # << >>) =>
             /\ fired.asked >= 0
             /\ fired'.plays <= fired.asked
             /\ \A i \in DOMAIN last'.io :
                   last'.io[i].op \in Uploads =>
                       last'.io[i].len = fired.duration ]_vars

(* the timer of an Interval that replaced a running timer has made its last
   upload *)
C23_Witness ==
    /\ last.actor = "timer"
    /\ UploadCount(last.io) = 1
    /\ fired.replaced
    /\ fired.duration = 50
    /\ fired.plays = fired.asked

(* C24 Worker error handling: once a device call of a waveform thread has
   failed (the removal, upload or play event of on(), or the gain write),
   the thread makes no device call in any later step of its waveform. *)
C24_WorkerStopsOnError ==
    (last.actor = "worker" /\ last.io # << >>)
        => hist[last.who].err # "failed"

(* C25 Capability gate: on a device whose feature bitmap has neither
   FF_PERIODIC nor FF_CUSTOM, a PredefinedEffect or Primitive is answered
   with -ENOTSUP and attempts no device call. *)
C25_CapabilityGate ==
    (/\ \E t \in { VIBRATION_EFFECT, VIBRATION_PRIMITIVE } :
            Replied(t) /\ last.dispatched
     /\ dev.bits \cap { "FF_PERIODIC", "FF_CUSTOM" } = {})
        => (last.result = -ENOTSUP /\ last.io = << >>)

(* the device cannot be opened, or its bitmap was read and has neither
   FF_CONSTANT nor FF_PERIODIC *)
Unusable(d) ==
    \/ ~d.openable
    \/ d.gbit /\ d.bits \cap { "FF_CONSTANT", "FF_PERIODIC" } = {}

(* C26 Fatal init: on a device that cannot be opened or has neither
   FF_CONSTANT nor FF_PERIODIC, vibrator_init() returns -ENODEV and main()
   returns it: the daemon has exited, has served no request and has made no
   device call, however often it is started. *)
C26_FatalInit ==
    Unusable(dev) =>
        /\ loop_pc = "exited"
        /\ last.actor \in { "init", "restart" }
        /\ last.result = -ENODEV
        /\ last.io = << >>
        /\ dev_effects = {}

(* a device with gain and custom waveforms but neither constant nor
   periodic effects: the daemon was started again and exited again *)
C26_Witness ==
    /\ dev = [openable |-> TRUE, gbit |-> TRUE,
              bits |-> { "FF_CUSTOM", "FF_GAIN" }]
    /\ last.actor = "restart"
    /\ last.result = -ENODEV
    /\ loop_pc = "exited"

(* where a thread is while it plays a step of its waveform *)
PlayingPcs == { "on_rm", "on_upload", "on_play", "gain", "delay" }

(* C27 Handoff without race: the waveform a thread plays (timings,
   amplitudes, length, and the repeat index it was asked for) is the payload
   of the Waveform command that spawned it, whatever is dispatched after the
   spawn. *)
C27_HandoffWithoutRace ==
    \A w \in WorkerIds :
        workers[w].pc \in PlayingPcs =>
            [workers[w].wave EXCEPT !.repeat = workers[w].asked]
                = hist[w].given

(* C28 Completion signal: whenever a waveform thread ends, by whatever
   path, it has set condition_is_met to true. *)
C28_CompletionSignal ==
    [][ \A w \in WorkerIds :
          (/\ last'.actor = "worker"
           /\ last'.who = w
           /\ workers[w].pc # "none"
           /\ workers'[w].pc = "none") => condition_is_met' ]_vars

(* C29 Waveform reply: a Waveform whose dispatch waits on the condition
   variable eventually leaves the wait and gets its reply. *)
C29_WaveformReplied ==
    (loop_pc = "cond_wait") ~> (loop_pc = "idle")

(* C30 Cancelable delay: when forcestop has become true while a thread is
   in the delay of a step, that delay returns a waiting time shorter than
   the duration of the step. *)
C30_CancelableDelay ==
    [][ \A w \in WorkerIds :
          (/\ hist[w].hit
           /\ last'.actor = "worker"
           /\ last'.who = w
           /\ workers[w].pc = "delay"
           /\ workers[w].duration > 0)
              => last'.value < workers[w].duration ]_vars

(* C31: Off is a mute.  No waveform thread makes a device call (the removal,
   upload and play of on(), the gain write of ff_set_amplitude()) in a step
   whose amplitude is the value scale() returned for intensity Off; in
   particular not after a SetIntensity(Off) dispatched while it plays. *)
C31_OffIsMute ==
    ~(/\ last.actor = "worker"
      /\ last.io # << >>
      /\ hist[last.who].off)

(* the driver calls of on(): the steps a thread takes inside ff_play() *)
OnPcs == { "on_rm", "on_upload", "on_play" }

(* the on-duration of the run that starts at the step thread w is in *)
RunDuration(w) ==
    get_total_on_duration(workers[w].wave.timings, workers[w].wave.amplitudes,
                          workers[w].index - 1, workers[w].wave.repeat,
                          workers[w].wave.length)

(* C32 as stated: in a waveform step with non-zero amplitude the thread
   calls on() only when no on-duration remains and writes the gain only
   otherwise; a step that called on() does not write the gain as well. *)
C32_StepDeviceCalls_Original ==
    [][ \A w \in WorkerIds :
          /\ (workers[w].pc = "check" /\ workers'[w].pc = "on_rm")
                => workers[w].on_duration <= 0
          /\ (workers[w].pc = "check" /\ workers'[w].pc = "gain")
                => workers[w].on_duration > 0
          /\ workers[w].pc \in OnPcs => workers'[w].pc # "gain" ]_vars

(* C32: in a waveform step the thread calls on() exactly when the amplitude
   is non-zero and no on-duration remains, with the total on-duration of the
   run as the length of the constant effect it uploads; it writes the gain
   in every step with non-zero amplitude, after on() when the step calls it;
   a step with amplitude zero makes no device call. *)
C32_StepDeviceCalls ==
    [][ \A w \in WorkerIds :
          /\ (workers[w].pc = "check" /\ workers'[w].pc = "on_rm")
                => /\ workers[w].on_duration <= 0
                   /\ workers'[w].amplitude # 0
                   /\ workers'[w].on_duration =
                          get_total_on_duration(workers[w].wave.timings,
                              workers[w].wave.amplitudes, workers[w].index,
                              workers[w].wave.repeat, workers[w].wave.length)
          /\ (workers[w].pc = "check" /\ workers'[w].pc = "gain")
                => /\ workers[w].on_duration > 0
                   /\ workers'[w].amplitude # 0
                   /\ workers'[w].on_duration = workers[w].on_duration
          /\ (workers[w].pc = "check" /\ workers'[w].pc = "delay")
                => workers'[w].amplitude = 0
          /\ (workers[w].pc \in OnPcs /\ workers'[w].pc # workers[w].pc)
                => workers'[w].pc \in OnPcs \cup { "gain" }
          /\ (workers[w].pc = "on_upload" /\ workers'[w].pc # "on_upload")
                => /\ last'.io[1].op = "EVIOCSFF constant"
                   /\ last'.io[1].len = workers[w].on_duration
          /\ (workers[w].pc = "gain" /\ workers'[w].pc # "gain")
                => /\ workers'[w].pc = "delay"
                   /\ Len(last'.io) = 1
                   /\ last'.io[1].op = "FF_GAIN" ]_vars

(* a thread has written the gain in a step that did not call on(): part of
   the on-duration of its run was left *)
C32_Witness ==
    \E w \in WorkerIds :
        /\ workers[w].pc = "delay"
        /\ workers[w].amplitude # 0
        /\ last.actor = "worker"
        /\ last.who = w
        /\ last.io # << >>
        /\ last.io[1].op = "FF_GAIN"
        /\ workers[w].on_duration > 0
        /\ workers[w].on_duration < RunDuration(w)

(* the first index from i on at which a run of non-zero amplitudes ends:
   the first with amplitude zero, or limit *)
RECURSIVE RunEnd(_, _, _)
RunEnd(amplitudes, i, limit) ==
    IF i >= limit \/ At(amplitudes, i) = 0
    THEN i
    ELSE RunEnd(amplitudes, i + 1, limit)

(* the run of calc.wave from calc.start: it reaches length, it goes on from
   repeat, where that part ends, and whether it comes back to the start *)
ReachesLength ==
    RunEnd(calc.wave.amplitudes, calc.start, calc.wave.length)
        = calc.wave.length
Wraps == ReachesLength /\ calc.wave.repeat >= 0
WrapEnd ==
    RunEnd(calc.wave.amplitudes, calc.wave.repeat,
           IF calc.wave.repeat <= calc.start
           THEN calc.start ELSE calc.wave.length)
ComesBack ==
    Wraps /\ calc.wave.repeat <= calc.start /\ WrapEnd = calc.start

(* the sum of timings[a .. b-1] in two parts, the multiples of 2^16 and the
   rest, and the test that a value is that sum *)
RECURSIVE HiSum(_, _, _)
HiSum(timings, a, b) ==
    IF a >= b THEN 0
    ELSE (At(timings, a) \div 65536) + HiSum(timings, a + 1, b)
RECURSIVE LoSum(_, _, _)
LoSum(timings, a, b) ==
    IF a >= b THEN 0
    ELSE (At(timings, a) % 65536) + LoSum(timings, a + 1, b)
IsSum(r, hi, lo) ==
    /\ r >= 0
    /\ r \div 65536 = hi + (lo \div 65536)
    /\ r % 65536 = lo % 65536
RunHi ==
    HiSum(calc.wave.timings, calc.start,
          RunEnd(calc.wave.amplitudes, calc.start, calc.wave.length))
      + (IF Wraps THEN HiSum(calc.wave.timings, calc.wave.repeat, WrapEnd)
         ELSE 0)
RunLo ==
    LoSum(calc.wave.timings, calc.start,
          RunEnd(calc.wave.amplitudes, calc.start, calc.wave.length))
      + (IF Wraps THEN LoSum(calc.wave.timings, calc.wave.repeat, WrapEnd)
         ELSE 0)

(* C33: for a waveform with start_index < length and -1 <= repeat < length,
   get_total_on_duration() reads no index >= length; it returns the sentinel
   1000 when the run of non-zero amplitudes from start_index, going on once
   from repeat after it reached length, comes back to start_index, and the
   sum of the timings of the run otherwise. *)
C33_TotalOnDuration ==
    calc.fn = "get_total_on_duration"
        => /\ calc.reads \subseteq 0 .. (calc.wave.length - 1)
           /\ IF ComesBack
              THEN calc.ret = SentinelDuration
              ELSE IsSum(calc.ret, RunHi, RunLo)

(* C34: in a daemon started without a persisted intensity, as long as no
   SetIntensity with a value other than Off has been dispatched, every Start,
   PredefinedEffect and Primitive command is answered -ENOTSUP and makes no
   driver call, whatever GetIntensity, GetCapabilities, SetAmplitude and
   SetIntensity(Off) commands came before it. *)
C34_FreshInstall ==
    (\E type \in GatedTypes : Replied(type))
        => (last.result = -ENOTSUP /\ last.io = << >>)

(* a Start was rejected after a SetAmplitude had been accepted, the store
   still without an intensity *)
C34_Witness ==
    /\ Replied(VIBRATION_START)
    /\ last.result = -ENOTSUP
    /\ curr_amplitude # VIBRATOR_MAX_AMPLITUDE
    /\ kvdb = NoKey

(* C35: one command per connection.  On a socket accept() has returned the
   daemon dispatches at most one command, and once it has written a reply on
   the socket it has closed it, whether or not the client has closed its
   end. *)
C35_OneCommandPerConnection ==
    \A c \in ConnIds :
        /\ socks[c].dispatched <= 1
        /\ socks[c].replies > 0 => socks[c].state = "closed"

(* the commands that play nothing, and a step that dispatches one *)
NonPlayTypes ==
    { VIBRATION_SET_AMPLITUDE, VIBRATION_SET_INTENSITY,
      VIBRATION_GET_INTENSITY, VIBRATION_GET_CAPABLITY, UnknownType }
NonPlayDispatch ==
    /\ nreq' = nreq + 1
    /\ last'.actor = "conn"
    /\ last'.dispatched
    /\ last'.type \in NonPlayTypes

(* C36: the dispatch of a SetAmplitude, SetIntensity, GetIntensity or
   GetCapabilities command or of a command of unknown type leaves
   forcestop, the interval timer and its count, condition_is_met and every
   waveform thread as they were: what is playing is not cancelled. *)
C36_NonPlayLeavesPlayback ==
    [][ NonPlayDispatch
          => UNCHANGED << forcestop, timer, wave, condition_is_met,
                          workers >> ]_vars

(* a SetIntensity was answered while a waveform thread is inside its loop
   and nothing has asked it to stop *)
C36_Witness ==
    /\ Replied(VIBRATION_SET_INTENSITY)
    /\ ~forcestop
    /\ \E w \in WorkerIds :
          /\ workers[w].pc \in { "on_upload", "on_play", "gain", "delay" }
          /\ ~workers[w].cancelled

(* C37: frame capacity.  The request_len and the response_len of a frame
   the client library has sent (the header constant 8 plus the size of the
   payload of its type) fit the packed vibrator_msg_t, so that the frame can
   be dispatched: the bytes one recv() into the vibrator_msg_t buffer can
   return reach its request_len. *)
C37_FrameCapacity ==
    call.sent
        => /\ call.frame.request_len <= SizeofMsg
           /\ call.frame.response_len <= SizeofMsg
           /\ Min(call.frame.nbytes, SizeofMsg) >= call.frame.request_len

(* C38: SetIntensity is atomic on error.  A SetIntensity whose write to the
   persistent store fails is answered with the negative result of the write
   and leaves the intensity held in memory as it was. *)
C38_SetIntensityAtomic ==
    [][ (/\ nreq' = nreq + 1
         /\ last'.actor = "conn"
         /\ last'.dispatched
         /\ last'.type = VIBRATION_SET_INTENSITY
         /\ nfault' = nfault + 1)
           => (last'.result < 0 /\ intensity' = intensity) ]_vars

(* C39: for a waveform with -1 <= repeat < length, should_repeat() reads
   timings only at indices in [0, length), and it returns true exactly when
   some timing from max(repeat, 0) on is non-zero. *)
C39_ShouldRepeatBounds ==
    calc.fn = "should_repeat"
        => /\ calc.reads \subseteq 0 .. (calc.wave.length - 1)
           /\ (calc.ret = 1)
                <=> \E j \in 0 .. (calc.wave.length - 1) :
                       /\ j >= calc.wave.repeat
                       /\ At(calc.wave.timings, j) # 0

====
